---- MODULE Spec2Model ----
(***************************************************************************)
(* Land/water polygon synthesis of venue_map: the coastline pipeline of    *)
(* background/coastline_water.py (frame clipper, frame splitter,           *)
(* polygonizer, classifier), the ring stitcher of background/greenery.py,  *)
(* the vote classifier of water_debug.py and the hole assembler of         *)
(* background/water.py.                                                    *)
(*                                                                         *)
(* Geometry.  Input coordinates are integer metres.  Coastlines are        *)
(* rectilinear polylines, so that clipping against the axis-aligned frame  *)
(* stays on the integer grid.  The frame splitter samples each sub-edge at *)
(* num_points = 10 equidistant positions, so ring vertices are kept in     *)
(* tenths of a metre (Scale) and areas as twice the area in square tenths  *)
(* (Area200 = 200 * square metres).  Calls into shapely are modelled by    *)
(* their result on such input: intersection of a line with the box, the    *)
(* planar faces polygonize() finds on noded linework, areas by the         *)
(* shoelace formula.  Where the code measures the overlap of a face with   *)
(* an island or land-cover polygon, the measured area is an input of the   *)
(* step.                                                                   *)
(***************************************************************************)
EXTENDS Integers, Sequences, FiniteSets, TLC

\* ------------------------------------------------------------------ frame
\* map_bounds of the scenario: xlim [0, 100], ylim [0, 100]
XMin == 0
YMin == 0
XMax == 100
YMax == 100

FrameW == XMax - XMin
FrameH == YMax - YMin
\* frame_line.length
total_length == 2 * FrameW + 2 * FrameH

\* 1 m tolerance of the touch test, 10 m minimum separation of split points,
\* 1 m minimum length of a frame segment
TouchTol == 1
MinSeparation == 10
MinSegLen == 1
\* num_points = max(10, int(length / 100))
MinNumPoints == 10
MetresPerPoint == 100
\* ring coordinates are in 1/Scale metres
Scale == 10

Max(a, b) == IF a >= b THEN a ELSE b
Min(a, b) == IF a <= b THEN a ELSE b
Abs(a) == IF a >= 0 THEN a ELSE -a

Last(s) == s[Len(s)]
Reverse(s) == [i \in 1..Len(s) |-> s[Len(s) + 1 - i]]
Range(s) == {s[i] : i \in 1..Len(s)}

RECURSIVE Concat(_)
\* the concatenation of a sequence of sequences
Concat(ss) == IF ss = <<>> THEN <<>> ELSE Head(ss) \o Concat(Tail(ss))

RECURSIVE SetToSeq(_)
\* the elements of a finite set of integers, in some order
SetToSeq(S) == IF S = {} THEN <<>>
               ELSE LET x == CHOOSE x \in S : TRUE
                    IN  <<x>> \o SetToSeq(S \ {x})

\* a metre point in ring coordinates
ToRing(p) == <<Scale * p[1], Scale * p[2]>>

\* map_boundary contains the point (closed box)
InBox(p) == p[1] >= XMin /\ p[1] <= XMax /\ p[2] >= YMin /\ p[2] <= YMax

\* map_boundary.boundary.distance(point) < 1 for a point of the integer grid:
\* the distance of a grid point to the boundary is 0 or at least 1
NearBoundary(p) ==
    /\ InBox(p)
    /\ (p[1] = XMin \/ p[1] = XMax \/ p[2] = YMin \/ p[2] = YMax)
    /\ 0 < TouchTol

\* frame_line = box exterior: (xmax,ymin) -> (xmax,ymax) -> (xmin,ymax) ->
\* (xmin,ymin) -> (xmax,ymin).  frame_line.project(point) for a point on the
\* boundary: the smallest distance along the line at which the point lies.
Project(p) ==
    IF p[1] = XMax /\ p[2] >= YMin /\ p[2] <= YMax THEN p[2] - YMin
    ELSE IF p[2] = YMax THEN FrameH + (XMax - p[1])
    ELSE IF p[1] = XMin THEN FrameH + FrameW + (YMax - p[2])
    ELSE 2 * FrameH + FrameW + (p[1] - XMin)

\* frame_line.interpolate(d) for 0 <= d <= total_length, d in 1/Scale metres;
\* the result is in ring coordinates
Interpolate(d) ==
    IF d <= Scale * FrameH THEN <<Scale * XMax, Scale * YMin + d>>
    ELSE IF d <= Scale * (FrameH + FrameW)
         THEN <<Scale * XMax - (d - Scale * FrameH), Scale * YMax>>
    ELSE IF d <= Scale * (2 * FrameH + FrameW)
         THEN <<Scale * XMin, Scale * YMax - (d - Scale * (FrameH + FrameW))>>
    ELSE <<Scale * XMin + (d - Scale * (2 * FrameH + FrameW)), Scale * YMin>>

\* ---------------------------------------------------------- frame clipper
\* The part of the axis-parallel segment p-q inside the closed box, in the
\* direction of p-q: <<>> when there is none, else <<a, b>> (a = b: a point).
ClipSegment(p, q) ==
    IF p[2] = q[2]
    THEN LET lo == Max(Min(p[1], q[1]), XMin)
             hi == Min(Max(p[1], q[1]), XMax)
         IN  IF p[2] < YMin \/ p[2] > YMax \/ lo > hi THEN <<>>
             ELSE IF p[1] <= q[1] THEN << <<lo, p[2]>>, <<hi, p[2]>> >>
             ELSE << <<hi, p[2]>>, <<lo, p[2]>> >>
    ELSE LET lo == Max(Min(p[2], q[2]), YMin)
             hi == Min(Max(p[2], q[2]), YMax)
         IN  IF p[1] < XMin \/ p[1] > XMax \/ lo > hi THEN <<>>
             ELSE IF p[2] <= q[2] THEN << <<p[1], lo>>, <<p[1], hi>> >>
             ELSE << <<p[1], hi>>, <<p[1], lo>> >>

RECURSIVE ClipWalk(_, _, _, _)
\* coastline.intersection(map_boundary), walked segment by segment: `done' are
\* the finished parts, `cur' the part being extended.  A part of one point is
\* a Point of the result, a part of two or more a LineString.
ClipWalk(line, k, cur, done) ==
    IF k >= Len(line) THEN (IF cur = <<>> THEN done ELSE Append(done, cur))
    ELSE LET c == ClipSegment(line[k], line[k + 1])
         IN  IF c = <<>>
             THEN ClipWalk(line, k + 1, <<>>,
                           IF cur = <<>> THEN done ELSE Append(done, cur))
             ELSE IF cur # <<>> /\ Last(cur) = c[1]
             THEN ClipWalk(line, k + 1,
                           IF c[2] = c[1] THEN cur ELSE Append(cur, c[2]), done)
             ELSE ClipWalk(line, k + 1,
                           IF c[2] = c[1] THEN <<c[1]>> ELSE c,
                           IF cur = <<>> THEN done ELSE Append(done, cur))

Intersection(line) == ClipWalk(line, 1, <<>>, <<>>)

\* the except branch of split_coastline_at_boundary_intersections
ClipFallback(coastline) == <<coastline>>

\* split_coastline_at_boundary_intersections: `raises' is whether shapely's
\* intersection raised.  Empty -> [], LineString -> [clipped],
\* MultiLineString -> its parts, GeometryCollection -> its LineStrings,
\* Point and the rest -> []: in every case the LineString parts.
split_coastline_at_boundary_intersections(coastline, raises) ==
    IF raises THEN ClipFallback(coastline)
    ELSE SelectSeq(Intersection(coastline), LAMBDA part : Len(part) >= 2)

\* the touch points one clipped segment contributes (lines 495-503)
TouchPointsOf(seg) ==
    (IF NearBoundary(seg[1]) THEN <<seg[1]>> ELSE <<>>)
    \o (IF NearBoundary(Last(seg)) THEN <<Last(seg)>> ELSE <<>>)

\* --------------------------------------------------------- frame splitter
RECURSIVE Insert(_, _)
Insert(sorted, d) ==
    IF sorted = <<>> THEN <<d>>
    ELSE IF d <= Head(sorted) THEN <<d>> \o sorted
    ELSE <<Head(sorted)>> \o Insert(Tail(sorted), d)

RECURSIVE Sort(_)
\* vertex_positions.sort(): by distance along the boundary
Sort(s) == IF s = <<>> THEN <<>> ELSE Insert(Sort(Tail(s)), Head(s))

\* vertex_positions left in the order the touch points were found
VertexPositionsUnsorted(points) ==
    [i \in 1..Len(points) |-> Project(points[i])]

\* vertex_positions of the touch points, sorted (lines 547-557)
VertexPositions(points) == Sort([i \in 1..Len(points) |-> Project(points[i])])

\* is sorted position i kept (line 562)
KeepPosition(vp, i) == i = 1 \/ vp[i] - vp[i - 1] > MinSeparation

\* unique_positions (lines 559-563): each position is compared with the one
\* before it in the sorted list
UniquePositions(vp) ==
    LET kept == SelectSeq([i \in 1..Len(vp) |-> i],
                          LAMBDA i : KeepPosition(vp, i))
    IN  [n \in 1..Len(kept) |-> vp[kept[n]]]

\* end_dist of segment i, after the wrap-around adjustment (lines 573-578)
EndDist(up, i) ==
    LET s == up[i]
        e == up[(i % Len(up)) + 1]
    IN  IF e < s THEN e + total_length ELSE e

\* num_points (line 591)
NumPoints(len) == Max(MinNumPoints, len \div MetresPerPoint)

\* is a segment created for the stretch of this length (lines 581, 588)
SegmentCreated(len) == len > MinSegLen /\ 2 * len < total_length

\* segment_coords of the stretch from start_dist to end_dist (lines 590-595)
SegmentCoords(s, e) ==
    LET n == NumPoints(e - s)
    IN  [j \in 1..(n + 1) |->
            Interpolate((Scale * s + (Scale * (e - s) * (j - 1)) \div n)
                        % (Scale * total_length))]

\* the frame without its left edge
FourEdgesLeftOpen ==
    << <<ToRing(<<XMin, YMin>>), ToRing(<<XMax, YMin>>)>>,
       <<ToRing(<<XMax, YMin>>), ToRing(<<XMax, YMax>>)>>,
       <<ToRing(<<XMax, YMax>>), ToRing(<<XMin, YMax>>)>> >>

\* the 4 corner-to-corner edges (lines 539-545)
FourEdges ==
    << <<ToRing(<<XMin, YMin>>), ToRing(<<XMax, YMin>>)>>,
       <<ToRing(<<XMax, YMin>>), ToRing(<<XMax, YMax>>)>>,
       <<ToRing(<<XMax, YMax>>), ToRing(<<XMin, YMax>>)>>,
       <<ToRing(<<XMin, YMax>>), ToRing(<<XMin, YMin>>)>> >>

\* frame_segments of the unique positions (lines 567-604)
FrameSegments(up) ==
    LET made == SelectSeq([i \in 1..Len(up) |-> i],
                          LAMBDA i : SegmentCreated(EndDist(up, i) - up[i]))
    IN  [k \in 1..Len(made) |-> SegmentCoords(up[made[k]], EndDist(up, made[k]))]

create_frame_with_coastline_vertices(coastline_boundary_points) ==
    IF coastline_boundary_points = <<>> THEN FourEdges
    ELSE CHOOSE frame_segments \in
             {FrameSegments(unique_positions) :
                 unique_positions \in
                     {UniquePositions(vertex_positions) :
                         vertex_positions \in
                             {VertexPositions(coastline_boundary_points)}}} :
             TRUE

\* ------------------------------------------------------------ polygonizer
\* polygonize(lines) on linework that meets only at line ends: every line is
\* one edge between its two end nodes.  Dangles and cut edges are deleted,
\* the remaining directed edges are linked into rings (at a node, the next
\* edge is the first one clockwise from the edge just walked, which keeps
\* the face on the left), and every counter-clockwise ring is a polygon.
Cross(a, b) == a[1] * b[2] - a[2] * b[1]
Dot(a, b) == a[1] * b[1] + a[2] * b[2]
Minus(p, q) == <<p[1] - q[1], p[2] - q[2]>>

\* a directed edge is <<line index, 0>> (as given) or <<line index, 1>>
Sym(de) == <<de[1], 1 - de[2]>>
Walk(lines, de) == IF de[2] = 0 THEN lines[de[1]] ELSE Reverse(lines[de[1]])
TailNode(lines, de) ==
    IF de[2] = 0 THEN lines[de[1]][1] ELSE lines[de[1]][Len(lines[de[1]])]
HeadNode(lines, de) == TailNode(lines, Sym(de))
\* the direction in which the directed edge leaves its tail node
OutDir(lines, de) ==
    LET l == lines[de[1]]
    IN  IF de[2] = 0 THEN Minus(l[2], l[1])
        ELSE Minus(l[Len(l) - 1], l[Len(l)])
DirectedEdges(alive) == alive \X {0, 1}

\* the number of line ends of the alive lines at a node
Degree(lines, alive, node) ==
    Cardinality({de \in DirectedEdges(alive) : TailNode(lines, de) = node})

RECURSIVE DeleteDangles(_, _)
DeleteDangles(lines, alive) ==
    LET dangling == {i \in alive :
                        \/ Degree(lines, alive, lines[i][1]) = 1
                        \/ Degree(lines, alive, Last(lines[i])) = 1}
    IN  IF dangling = {} THEN alive
        ELSE CHOOSE rest \in {DeleteDangles(lines, left) :
                                 left \in {alive \ dangling}} : TRUE

\* the quadrant of the counter-clockwise angle from r to a:
\* 0: same direction, 1: in (0, pi), 2: opposite, 3: in (pi, 2 pi)
Half(r, a) ==
    IF Cross(r, a) > 0 THEN 1
    ELSE IF Cross(r, a) < 0 THEN 3
    ELSE IF Dot(r, a) > 0 THEN 0 ELSE 2

\* the counter-clockwise angle from r to a is smaller than that from r to b
AngleLess(r, a, b) ==
    \/ Half(r, a) < Half(r, b)
    \/ Half(r, a) = Half(r, b) /\ Half(r, a) \in {1, 3} /\ Cross(a, b) > 0

\* the directed edge that follows de on the ring of the face left of de
NextEdge(lines, alive, de) ==
    LET node == HeadNode(lines, de)
        back == OutDir(lines, Sym(de))
        cands == {c \in DirectedEdges(alive) :
                     TailNode(lines, c) = node /\ c # Sym(de)}
    IN  IF cands = {} THEN Sym(de)
        ELSE CHOOSE c \in cands :
                 \A o \in cands \ {c} :
                     AngleLess(back, OutDir(lines, o), OutDir(lines, c))

RECURSIVE RingFrom(_, _, _, _)
\* the directed edges of the ring through `first', from `de' on
RingFrom(lines, alive, first, de) ==
    CHOOSE ring \in
        {IF n = first THEN <<de>>
         ELSE <<de>> \o RingFrom(lines, alive, first, n) :
            n \in {NextEdge(lines, alive, de)}} : TRUE

EdgeRing(lines, alive, de) == RingFrom(lines, alive, de, de)

\* cut edges: lines walked in both directions by one ring
CutEdges(lines, alive) ==
    {i \in alive : <<i, 1>> \in Range(EdgeRing(lines, alive, <<i, 0>>))}

\* the vertices of a ring of directed edges, the closing vertex not repeated
RingCoords(lines, ring) ==
    Concat([k \in 1..Len(ring) |-> Tail(Walk(lines, ring[k]))])

\* twice the signed area (shoelace); positive for a counter-clockwise ring
SignedArea2(r) ==
    LET term[i \in 0..Len(r)] ==
            IF i = 0 THEN 0
            ELSE term[i - 1] + Cross(r[i], r[(i % Len(r)) + 1])
    IN  term[Len(r)]

EdgeKey(de) == 2 * de[1] + de[2]

\* the rings of the alive lines, each once, from its smallest directed edge
Rings(lines, alive) ==
    LET isFirst(de) == \A o \in Range(EdgeRing(lines, alive, de)) :
                           EdgeKey(de) <= EdgeKey(o)
        firsts == {de \in DirectedEdges(alive) : isFirst(de)}
        keys == Sort(SetToSeq({EdgeKey(de) : de \in firsts}))
    IN  [k \in 1..Len(keys) |->
            EdgeRing(lines, alive, <<keys[k] \div 2, keys[k] % 2>>)]

RECURSIVE Sum(_)
Sum(s) == IF s = <<>> THEN 0 ELSE Head(s) + Sum(Tail(s))

\* is the point strictly inside the ring it does not lie on: the ray from p
\* to the right crosses the ring an odd number of times
Inside(p, ring) ==
    LET n == Len(ring)
        a(i) == ring[i]
        b(i) == ring[(i % n) + 1]
        crosses(i) ==
            /\ (a(i)[2] > p[2]) # (b(i)[2] > p[2])
            /\ IF b(i)[2] > a(i)[2]
               THEN (p[1] - a(i)[1]) * (b(i)[2] - a(i)[2])
                        < (p[2] - a(i)[2]) * (b(i)[1] - a(i)[1])
               ELSE (p[1] - a(i)[1]) * (b(i)[2] - a(i)[2])
                        > (p[2] - a(i)[2]) * (b(i)[1] - a(i)[1])
    IN  Cardinality({i \in 1..n : crosses(i)}) % 2 = 1

\* does the clockwise ring `hole' lie inside the counter-clockwise ring
\* `shell' of another part of the network
HoleIn(hole, shell) ==
    Range(hole) \cap Range(shell) = {} /\ Inside(hole[1], shell)

\* the polygons of the rings: a face is its exterior ring, the clockwise
\* rings that are its holes (each hole belongs to the smallest shell around
\* it), twice its area in ring units and the lines on its boundary
FacesOf(lines, rings) ==
    LET coords == [k \in 1..Len(rings) |-> RingCoords(lines, rings[k])]
        area2 == [k \in 1..Len(rings) |-> SignedArea2(coords[k])]
        shells == {k \in 1..Len(rings) : area2[k] > 0}
        around(h) == {k \in shells : HoleIn(coords[h], coords[k])}
        holesOf(k) ==
            {h \in 1..Len(rings) :
                /\ area2[h] < 0
                /\ k \in around(h)
                /\ \A o \in around(h) : area2[k] <= area2[o]}
        faces == [k \in 1..Len(rings) |->
                     [exterior |-> coords[k],
                      holes |-> {coords[h] : h \in holesOf(k)},
                      area200 |->
                          LET hs == SetToSeq(holesOf(k))
                          IN  area2[k]
                              + Sum([j \in 1..Len(hs) |-> area2[hs[j]]]),
                      lines |-> {rings[k][j][1] : j \in 1..Len(rings[k])}
                                \cup UNION {{rings[h][j][1] :
                                                j \in 1..Len(rings[h])} :
                                            h \in holesOf(k)}]]
    IN  SelectSeq(faces, LAMBDA f : SignedArea2(f.exterior) > 0)

\* list(polygonize(lines))
polygonize(lines) ==
    CHOOSE faces \in
        {FacesOf(lines, rings) :
            rings \in {Rings(lines, alive) :
                alive \in {noDangles \ CutEdges(lines, noDangles) :
                    noDangles \in {DeleteDangles(lines, 1..Len(lines))}}}} :
        TRUE

\* -------------------------------------------------------------- classifier
\* p.area > 1000 (square metres), greenery_poly.area > 100,
\* island_ratio > 0.8, greenery_ratio > 0.05
MinFaceArea == 1000
MinGreeneryArea == 100
IslandNum == 8
IslandDen == 10
GreeneryNum == 5
GreeneryDen == 100
\* twice the number of square ring units in a square metre
AreaUnit == 2 * Scale * Scale

\* the filter without its validity test
ValidPolygonsAreaOnly(faces) ==
    SelectSeq(faces, LAMBDA f : f.area200 > MinFaceArea * AreaUnit)

\* valid_polygons (line 654): p.is_valid and p.area > 1000
ValidPolygons(faces) ==
    SelectSeq(faces, LAMBDA f : f.is_valid
                                /\ f.area200 > MinFaceArea * AreaUnit)

\* a polygon of polygonize with what its is_valid returns
WithValidity(face, valid) ==
    [exterior |-> face.exterior, holes |-> face.holes,
     area200 |-> face.area200, lines |-> face.lines, is_valid |-> valid]

\* The land-cover layer as process_greenery returns it: a dict from the three
\* categories to lists of polygon records.  Iterating a dict yields its keys.
CategoryKeys == <<"forest", "farmland", "leisure">>
KeyLen(key) == CASE key = "forest" -> 6 [] key = "farmland" -> 8
                 [] key = "leisure" -> 7 [] OTHER -> 0

\* An entry the conversion loop sees (lines 662-669): a dict key (a string)
\* or a list of coordinates.  `src' is the land-cover polygon it stands for
\* (0: none).
KeyEntry(key) == [key |-> key, coords |-> <<>>, src |-> 0]
CoordsEntry(coords, src) == [key |-> "", coords |-> coords, src |-> src]
EntryLen(e) == IF e.key # "" THEN KeyLen(e.key) ELSE Len(e.coords)

\* Polygon(greenery_coords) raises on a string
PolygonRaises(e) == e.key # ""

\* is the entry appended to greenery_polygons (lines 664-667); the rings of
\* the land-cover layer are simple, so is_valid holds of them
EntryConverted(e) ==
    /\ EntryLen(e) >= 3
    /\ ~PolygonRaises(e)
    /\ Abs(SignedArea2(e.coords)) > 2 * MinGreeneryArea

\* for i, greenery_coords in enumerate(greenery_data)
GreeneryPolygons(entries) == SelectSeq(entries, EntryConverted)

\* processed.get('greenery', []) as the manager passes it on (manager.py 63):
\* the dict itself, whose iteration yields the category keys
ManagerEntries(layer) == [k \in 1..Len(CategoryKeys) |-> KeyEntry(CategoryKeys[k])]

\* a caller that passes the exteriors of the layer as a list of rings
DirectEntries(layer) == [k \in 1..Len(layer) |-> CoordsEntry(layer[k], k)]

\* Check 1 without its threshold: island_ratio > 1.0
IsKnownIslandNoThreshold(total_island_area, area) ==
    IslandDen * total_island_area > IslandDen * area

\* Check 1 (line 703): island_ratio > 0.8
IsKnownIsland(total_island_area, area) ==
    IslandDen * total_island_area > IslandNum * area

\* Check 2 (line 719): greenery_ratio > 0.05
HasSignificantGreenery(total_greenery_area, area) ==
    GreeneryDen * total_greenery_area > GreeneryNum * area

\* is_land taken from the greenery check alone
IsLandGreeneryDecides(total_island_area, total_greenery_area, area) ==
    HasSignificantGreenery(total_greenery_area, area)

\* is_land of one polygon (lines 688-721)
IsLand(total_island_area, total_greenery_area, area) ==
    IF IsKnownIsland(total_island_area, area) THEN TRUE
    ELSE HasSignificantGreenery(total_greenery_area, area)

\* every polygon appended, whatever is_land
AppendedAlways(is_land) == is_land \/ ~is_land

\* does the polygon go to water_polygons (lines 725-729)
AppendedToWater(is_land) == ~is_land

\* ------------------------------------------------------------------ inputs
\* the coastline ways a request can bring (metres)
CoastPool ==
    << << <<0, 50>>, <<100, 50>> >>,
       << <<30, -20>>, <<30, 120>> >>,
       << <<-20, 30>>, <<-10, 30>> >>,
       << <<60, -10>>, <<60, 40>>, <<110, 40>> >>,
       << <<50, -10>>, <<50, 40>> >>,
       << <<-10, 0>>, <<0, 0>> >>,
       << <<0, 45>>, <<100, 45>> >>,
       << <<20, 110>>, <<20, 60>>, <<-10, 60>>, <<-10, 30>>, <<40, 30>> >>,
       << <<110, 60>>, <<70, 60>>, <<70, 110>> >> >>

\* a closed coastline inside the frame: the shore of an island
LoopCoast ==
    << <<20, 20>>, <<60, 20>>, <<60, 60>>, <<20, 60>>, <<20, 20>> >>

\* coastlines whose touch points lie close to one another on the frame
CornerCut == << <<97, -10>>, <<97, 3>>, <<110, 3>> >>
Zigzag ==
    << <<110, 40>>, <<90, 40>>, <<90, 48>>, <<110, 48>>, <<110, 56>>,
       <<90, 56>> >>

\* two coastlines that cut off two corners of the frame
TwoCorners == <<4, 9>>

\* the land-cover rings a request can bring (metres)
LandcoverPool ==
    << << <<20, 60>>, <<30, 60>>, <<30, 70>>, <<20, 70>>, <<20, 60>> >>,
       << <<10, 10>>, <<90, 10>>, <<90, 90>>, <<10, 90>>, <<10, 10>> >>,
       << <<40, 40>>, <<60, 60>> >> >>

\* the share of a face, in percent, an island or land-cover polygon can be
\* measured to cover
IslandPercents == {0, 80, 90}
GreeneryPercents == {0, 5, 6}

MaxCoast == 2
MaxInvalid == 1
MaxIslands == 2
MaxLandcover == 2

\* the sequences of at most n different indices into a pool of the given size
RECURSIVE Picks(_, _)
Picks(size, n) ==
    IF n = 0 THEN {<<>>}
    ELSE LET shorter == Picks(size, n - 1)
         IN  shorter \cup {Append(s, i) : s \in shorter, i \in 1..size}

DistinctPicks(size, n) ==
    {s \in Picks(size, n) : \A i, j \in 1..Len(s) : i # j => s[i] # s[j]}

\* the orders of n things
Orders(n) ==
    {f \in [1..n -> 1..n] : \A i, j \in 1..n : i # j => f[i] # f[j]}

VARIABLES
    caller,                      \* "manager" or "direct"
    coastline_segments,          \* extract_raw_coastline_segments
    island_count,                \* len(island_polygons)
    landcover,                   \* the rings of the processed land-cover layer
    pc,
    seg_i,                       \* the coastline the clip loop is at
    clip_raised,                 \* per coastline: did clipping raise
    clipped_coastline_segments,
    coastline_boundary_points,
    frame_boundary_with_vertices,
    all_segments,
    polygons,                    \* list(polygonize(...)), with is_valid
    valid_polygons,
    greenery_polygons,
    poly_i,                      \* the polygon the classification loop is at
    classified,                  \* per classified polygon: what was measured
    water_polygons

pipeVars == <<caller, coastline_segments, island_count, landcover, pc, seg_i,
              clip_raised, clipped_coastline_segments,
              coastline_boundary_points, frame_boundary_with_vertices,
              all_segments, polygons, valid_polygons, greenery_polygons, poly_i,
              classified, water_polygons>>

\* the ring stitcher (greenery.py, _stitch_ways_into_rings)
VARIABLES
    way_segments,                \* the argument
    remaining_segments,
    current_ring,
    ring_complete,
    rings,
    remaining_ids,               \* for each remaining segment, its place in
                                 \* the argument
    current_ids,                 \* the same for the segments of current_ring
    ring_ids,                    \* and for the segments of each ring returned
    spc

stitchVars == <<way_segments, remaining_segments, current_ring, ring_complete,
                rings, remaining_ids, current_ids, ring_ids, spc>>

\* the vote classifier (water_debug.py, main)
VARIABLES
    coastline_lines,             \* len(coastline_lines)
    result_polygons,             \* len(result_polygons)
    debug_i,                     \* the polygon the loop is at
    coast_k,                     \* the coastline the vote loop is at
    votes,
    answered,                    \* is_on_right_side has returned a bool
    classified_polygons,
    dpc

debugVars == <<coastline_lines, result_polygons, debug_i, coast_k, votes,
               answered, classified_polygons, dpc>>

\* the hole assembler (water.py, assemble_multipolygon_working)
VARIABLES
    assembler,                   \* "working" (water.py) or "simple" (get_water.py)
    members,                     \* the member ways of the relation
    all_outer_segments,
    all_inner_segments,
    connected,                   \* did connected_poly, connected_inner
                                 \* get appended
    outer_polys,
    inner_polys,
    unified_outer,
    significant_inner_polys,
    difference_outcome,          \* what unified_outer.difference(...) did
    final_geometry,
    returned,
    hpc

memberVars == <<members, all_outer_segments, all_inner_segments, connected>>

holeVars == <<assembler, memberVars, outer_polys, inner_polys, unified_outer,
              significant_inner_polys, difference_outcome, final_geometry,
              returned, hpc>>

\* the output normalizers (convert_coastline_water_to_polygons, process_water,
\* _process_water_standard)
VARIABLES
    normalizer,                  \* which of the three is running
    norm_ways,                   \* the ways (elements) of the water data
    norm_geoms,                  \* shapely geometries: water polygons, or
                                 \* the assembled geometry of each relation
    relation_types,              \* the type tag of each relation
    norm_i,                      \* the item the running loop is at
    polygon_features,            \* the records emitted so far
    emitted_from,                \* for each record, the way or relation it
                                 \* was made of
    npc

normVars == <<normalizer, norm_ways, norm_geoms, relation_types, norm_i,
              polygon_features, emitted_from, npc>>

\* the segment collector (extract_raw_coastline_segments)
VARIABLES
    boundary_ways,               \* boundary_result.ways
    collect_i,                   \* the way the loop is at
    raw_segments,                \* coastline_segments of the collector
    cpc

collectVars == <<boundary_ways, collect_i, raw_segments, cpc>>

\* the background manager (process_all_background)
VARIABLES
    background_data,             \* the raw layers fetched
    call_args,                   \* map_bounds, center_lat, center_lon, radius_km
    processed,                   \* the dict being filled and returned
    coastline_data,              \* what fetch_enhanced_coastline_water returned
    failure,                     \* the exception coastline generation raised
    mpc

managerVars == <<background_data, call_args, processed, coastline_data,
                 failure, mpc>>

\* the connector loop of create_archipelago_water
VARIABLES
    arch_segments,               \* (start_point, end_point) of each coastline
    arch_i,                      \* index of the loop over coastline_segments
    network_lines,               \* the lines handed to polygonize
    edge_points,                 \* history: each call of
                                 \* get_nearest_boundary_point and its result
    apc

archVars == <<arch_segments, arch_i, network_lines, edge_points, apc>>

\* OSMClient.query
VARIABLES
    retries,                     \* the loop counter
    responses,                   \* history: how each request sent ended
    query_outcome                \* "running", or how the call ended

queryVars == <<retries, responses, query_outcome>>

\* run_generate over the cache of fetched data
VARIABLES
    cities_to_process,           \* the city keys of the run
    cache_dirs,                  \* the files of each directory under data/
    city_i,                      \* index of the loop over cities_to_process
    loaded,                      \* history: each load_data_from_cache call
    generated,                   \* the cities generate_map was called for
    gpc

generateVars == <<cities_to_process, cache_dirs, city_i, loaded, generated,
                  gpc>>

vars == <<pipeVars, stitchVars, debugVars, holeVars, normVars, collectVars,
          managerVars, archVars, queryVars, generateVars>>

\* a part of the program that is not running
PipeIdle ==
    /\ caller = "none" /\ coastline_segments = <<>> /\ island_count = 0
    /\ landcover = <<>> /\ pc = "idle" /\ seg_i = 1 /\ clip_raised = <<>>
    /\ clipped_coastline_segments = <<>> /\ coastline_boundary_points = <<>>
    /\ frame_boundary_with_vertices = <<>> /\ all_segments = <<>>
    /\ polygons = <<>> /\ valid_polygons = <<>> /\ greenery_polygons = <<>> /\ poly_i = 1
    /\ classified = <<>> /\ water_polygons = <<>>

StitchIdle ==
    /\ way_segments = <<>> /\ remaining_segments = <<>> /\ current_ring = <<>>
    /\ ring_complete = FALSE /\ rings = <<>> /\ spc = "idle"
    /\ remaining_ids = <<>> /\ current_ids = <<>> /\ ring_ids = <<>>

NoVotes == [water |-> 0, land |-> 0]

DebugIdle ==
    /\ coastline_lines = 0 /\ result_polygons = 0 /\ debug_i = 1
    /\ coast_k = 1 /\ votes = NoVotes /\ answered = FALSE
    /\ classified_polygons = <<>> /\ dpc = "idle"

\* A geometry of the hole assembler is the set of unit cells it covers, with
\* its is_valid.
NoGeometry == [cells |-> {}, valid |-> TRUE]

NotConnected == [outer |-> FALSE, inner |-> FALSE]

HoleIdle ==
    /\ assembler = "none" /\ outer_polys = <<>> /\ inner_polys = <<>>
    /\ members = <<>> /\ all_outer_segments = <<>>
    /\ all_inner_segments = <<>> /\ connected = NotConnected
    /\ unified_outer = NoGeometry /\ significant_inner_polys = <<>>
    /\ difference_outcome = "none" /\ final_geometry = NoGeometry
    /\ returned = "none" /\ hpc = "idle"

NormIdle ==
    /\ normalizer = "none" /\ norm_ways = <<>> /\ norm_geoms = <<>>
    /\ relation_types = <<>> /\ emitted_from = <<>>
    /\ norm_i = 1 /\ polygon_features = <<>> /\ npc = "idle"

CollectIdle ==
    /\ boundary_ways = <<>> /\ collect_i = 1 /\ raw_segments = <<>>
    /\ cpc = "idle"

ManagerIdle ==
    /\ background_data = <<>> /\ call_args = <<>> /\ processed = <<>>
    /\ coastline_data = <<>> /\ failure = "none" /\ mpc = "idle"

ArchIdle ==
    /\ arch_segments = <<>> /\ arch_i = 1 /\ network_lines = <<>>
    /\ edge_points = <<>> /\ apc = "idle"

QueryIdle ==
    /\ retries = 0 /\ responses = <<>> /\ query_outcome = "idle"

GenerateIdle ==
    /\ cities_to_process = <<>> /\ cache_dirs = <<>> /\ city_i = 1
    /\ loaded = <<>> /\ generated = <<>> /\ gpc = "idle"

\* A request either brings up to MaxCoast coastlines and neither islands nor
\* land cover, or islands and land cover with at most one coastline or with
\* the two coastlines that cut off two corners; islands and land-cover
\* polygons together are no more than the larger of their two bounds.
GeometryInputs ==
    /\ caller = "manager"
    /\ \E pick \in DistinctPicks(Len(CoastPool), MaxCoast) :
           coastline_segments = [k \in 1..Len(pick) |-> CoastPool[pick[k]]]
    /\ island_count = 0
    /\ landcover = <<>>

ClassifierInputs ==
    /\ caller \in {"manager", "direct"}
    /\ \E pick \in Picks(Len(CoastPool), 1) \cup {TwoCorners} :
           coastline_segments = [k \in 1..Len(pick) |-> CoastPool[pick[k]]]
    /\ island_count \in 0..MaxIslands
    /\ \E pick \in Picks(Len(LandcoverPool), MaxLandcover) :
           landcover = [k \in 1..Len(pick) |-> LandcoverPool[pick[k]]]
    /\ island_count + Len(landcover) <= Max(MaxIslands, MaxLandcover)

\* the closed coastline, alone or with one coastline of the pool after it
LoopInputs ==
    /\ caller \in {"manager", "direct"}
    /\ \E pick \in Picks(Len(CoastPool), 1) :
           coastline_segments =
               <<LoopCoast>> \o [k \in 1..Len(pick) |-> CoastPool[pick[k]]]
    /\ island_count = 0
    /\ landcover = <<>>

\* a coastline that cuts off the corner of the frame where frame_line starts
\* and ends, 3 m from the corner on either side, or a coastline that leaves
\* and enters the frame through its right edge at 40 m, 48 m and 56 m
SplitInputs ==
    /\ caller \in {"manager", "direct"}
    /\ coastline_segments \in {<<CornerCut>>, <<Zigzag>>}
    /\ island_count = 0
    /\ landcover = <<>>

PipeInit ==
    /\ (GeometryInputs \/ ClassifierInputs \/ LoopInputs \/ SplitInputs)
    /\ pc = "clip"
    /\ seg_i = 1
    /\ clip_raised = <<>>
    /\ clipped_coastline_segments = <<>>
    /\ coastline_boundary_points = <<>>
    /\ frame_boundary_with_vertices = <<>>
    /\ all_segments = <<>>
    /\ polygons = <<>>
    /\ valid_polygons = <<>>
    /\ greenery_polygons = <<>>
    /\ poly_i = 1
    /\ classified = <<>>
    /\ water_polygons = <<>>

\* fetch_enhanced_coastline_water, one turn of the loop of lines 490-503
ClipCoastline ==
    /\ pc = "clip"
    /\ seg_i <= Len(coastline_segments)
    /\ \E raises \in BOOLEAN :
           LET clipped_segments ==
                   split_coastline_at_boundary_intersections(
                       coastline_segments[seg_i], raises)
           IN  /\ clipped_coastline_segments' =
                      clipped_coastline_segments \o clipped_segments
               /\ coastline_boundary_points' =
                      coastline_boundary_points \o
                      Concat([k \in 1..Len(clipped_segments) |->
                                 TouchPointsOf(clipped_segments[k])])
               /\ clip_raised' = Append(clip_raised, raises)
    /\ seg_i' = seg_i + 1
    /\ UNCHANGED <<caller, coastline_segments, island_count, landcover, pc,
                   frame_boundary_with_vertices, all_segments, polygons,
                   valid_polygons,
                   greenery_polygons, poly_i, classified, water_polygons>>
    /\ UNCHANGED <<stitchVars, debugVars, holeVars, normVars, collectVars,
                   managerVars, archVars, queryVars, generateVars>>

\* a clipped coastline in ring coordinates
RingLine(line) == [k \in 1..Len(line) |-> ToRing(line[k])]

\* fetch_enhanced_coastline_water, lines 505-509
SplitFrame ==
    /\ pc = "clip"
    /\ seg_i > Len(coastline_segments)
    /\ frame_boundary_with_vertices' =
           create_frame_with_coastline_vertices(coastline_boundary_points)
    /\ all_segments' =
           [k \in 1..Len(clipped_coastline_segments) |->
               RingLine(clipped_coastline_segments[k])]
           \o frame_boundary_with_vertices'
    /\ pc' = "polygonize"
    /\ UNCHANGED <<caller, coastline_segments, island_count, landcover, seg_i,
                   clip_raised, clipped_coastline_segments,
                   coastline_boundary_points, polygons, valid_polygons,
                   greenery_polygons, poly_i, classified, water_polygons>>
    /\ UNCHANGED <<stitchVars, debugVars, holeVars, normVars, collectVars,
                   managerVars, archVars, queryVars, generateVars>>

\* greenery_data as the caller hands it to the classifier
GreeneryDataOf(who, layer) == IF who = "manager" THEN ManagerEntries(layer)
                              ELSE DirectEntries(layer)
GreeneryData == GreeneryDataOf(caller, landcover)

\* create_complete_water_polygons_from_segments, lines 650-678.  Which of the
\* polygons of a network that is not cleanly noded are invalid is for
\* is_valid to say: any of them, up to MaxInvalid.
Polygonize ==
    /\ pc = "polygonize"
    /\ \E faces \in {polygonize(all_segments)} :
           \E invalid \in {S \in SUBSET (1..Len(faces)) :
                               Cardinality(S) <= MaxInvalid} :
               polygons' = [k \in 1..Len(faces) |->
                               WithValidity(faces[k], k \notin invalid)]
    /\ valid_polygons' = ValidPolygons(polygons')
    /\ greenery_polygons' = GreeneryPolygons(GreeneryData)
    /\ poly_i' = 1
    /\ pc' = "classify"
    /\ UNCHANGED <<caller, coastline_segments, island_count, landcover, seg_i,
                   clip_raised, clipped_coastline_segments,
                   coastline_boundary_points, frame_boundary_with_vertices,
                   all_segments, classified, water_polygons>>
    /\ UNCHANGED <<stitchVars, debugVars, holeVars, normVars, collectVars,
                   managerVars, archVars, queryVars, generateVars>>

\* the area, in the units of area200, of a ring given in metres
RingArea200(coords) ==
    IF Len(coords) < 3 THEN 0
    ELSE (AreaUnit \div 2) * Abs(SignedArea2(coords))

\* create_complete_water_polygons_from_segments, one turn of the loop of
\* lines 683-729.  island_cover[k] and land_cover[k] are the shares of the
\* polygon that intersection(...).area measures for island k and for
\* land-cover polygon k.
ClassifyPolygon ==
    /\ pc = "classify"
    /\ poly_i <= Len(valid_polygons)
    /\ LET poly == valid_polygons[poly_i]
           area == poly.area200
       IN  \E island_cover \in [1..island_count -> IslandPercents],
              land_cover \in [1..Len(landcover) -> GreeneryPercents] :
               LET island_area == [k \in 1..island_count |->
                                      (area * island_cover[k]) \div 100]
                   land_area == [k \in 1..Len(landcover) |->
                                    (area * land_cover[k]) \div 100]
                   total_island_area == Sum(island_area)
                   total_greenery_area ==
                       Sum([k \in 1..Len(greenery_polygons) |->
                               land_area[greenery_polygons[k].src]])
                   is_land == IsLand(total_island_area, total_greenery_area,
                                     area)
               IN  /\ \A k \in 1..Len(landcover) :
                          land_area[k] <= RingArea200(landcover[k])
                   /\ classified' =
                          Append(classified,
                                 [polygon |-> poly,
                                  island_cover |-> island_area,
                                  land_cover |-> land_area,
                                  island_area |-> total_island_area,
                                  greenery_area |-> total_greenery_area,
                                  landcover_area |-> Sum(land_area),
                                  label_steps |->
                                      <<FALSE,
                                        IsKnownIsland(total_island_area,
                                                      area),
                                        is_land>>,
                                  greenery_checked |->
                                      ~IsKnownIsland(total_island_area, area),
                                  is_land |-> is_land])
                   /\ water_polygons' =
                          IF AppendedToWater(is_land)
                          THEN Append(water_polygons, poly)
                          ELSE water_polygons
    /\ poly_i' = poly_i + 1
    /\ UNCHANGED <<caller, coastline_segments, island_count, landcover, pc,
                   seg_i, clip_raised, clipped_coastline_segments,
                   coastline_boundary_points, frame_boundary_with_vertices,
                   all_segments, polygons, valid_polygons,
                   greenery_polygons>>
    /\ UNCHANGED <<stitchVars, debugVars, holeVars, normVars, collectVars,
                   managerVars, archVars, queryVars, generateVars>>

\* create_complete_water_polygons_from_segments, lines 732-734
ReturnWater ==
    /\ pc = "classify"
    /\ poly_i > Len(valid_polygons)
    /\ pc' = "done"
    /\ UNCHANGED <<caller, coastline_segments, island_count, landcover, seg_i,
                   clip_raised, clipped_coastline_segments,
                   coastline_boundary_points, frame_boundary_with_vertices,
                   all_segments, polygons, valid_polygons,
                   greenery_polygons, poly_i,
                   classified, water_polygons>>
    /\ UNCHANGED <<stitchVars, debugVars, holeVars, normVars, collectVars,
                   managerVars, archVars, queryVars, generateVars>>

Init == PipeInit /\ StitchIdle /\ DebugIdle /\ HoleIdle /\ NormIdle /\ CollectIdle
    /\ ManagerIdle /\ ArchIdle /\ QueryIdle /\ GenerateIdle
Next == ClipCoastline \/ SplitFrame \/ Polygonize \/ ClassifyPolygon
            \/ ReturnWater
Spec == Init /\ [][Next]_vars

\* ------------------------------------------------- claims on the pipeline
SeqMin(s) == CHOOSE m \in Range(s) : \A v \in Range(s) : m <= v
SeqMax(s) == CHOOSE m \in Range(s) : \A v \in Range(s) : m >= v
Ys(ring) == [k \in 1..Len(ring) |-> ring[k][2]]
SpansY(face, lo, hi) ==
    SeqMin(Ys(face.exterior)) = Scale * lo /\ SeqMax(Ys(face.exterior)) = Scale * hi

\* the request of the scenario: the one coastline (0,50)-(100,50), clipped
\* without error, and nothing else
ScenarioRequest ==
    /\ coastline_segments = << << <<0, 50>>, <<100, 50>> >> >>
    /\ island_count = 0
    /\ landcover = <<>>
    /\ clip_raised = <<FALSE>>

\* C1: for the frame (0,0)-(100,100) and the single coastline (0,50)-(100,50)
\* the finished pipeline has produced exactly 2 faces, one spanning y in
\* [0,50] and one spanning y in [50,100], one labelled water and one land.
C1_ScenarioTwoFaces ==
    (pc = "done" /\ ScenarioRequest) =>
        /\ Len(classified) = 2
        /\ \E a, b \in 1..Len(classified) :
               /\ a # b
               /\ SpansY(classified[a].polygon, 0, 50)
               /\ SpansY(classified[b].polygon, 50, 100)
               /\ classified[a].is_land # classified[b].is_land

\* the frame splitter has run
FrameSplit == pc \in {"polygonize", "classify", "done"}

\* the sub-edges, in the order emitted, each end where the next begins and
\* the last ends where the first begins
ClosedChain(segs) ==
    /\ Len(segs) >= 1
    /\ \A k \in 1..Len(segs) : Last(segs[k]) = segs[(k % Len(segs)) + 1][1]

\* C3: for every non-empty set of touch points the frame sub-edges form one
\* closed boundary: each ends where the next begins, the last ends where the
\* first begins, so that together they go round the whole perimeter.
C3_FrameClosed ==
    (FrameSplit /\ coastline_boundary_points # <<>>) =>
        ClosedChain(frame_boundary_with_vertices)

\* the classifier measured an island cover of more than 80% of the polygon
IslandCovered(c) == IslandDen * c.island_area > IslandNum * c.polygon.area200

\* C5: a face whose island overlap exceeds 80% of its area is labelled land
\* and is not in the water output, whatever else was measured for it.
C5_IslandOverride ==
    \A k \in 1..Len(classified) :
        IslandCovered(classified[k]) =>
            /\ classified[k].is_land
            /\ classified[k].polygon \notin Range(water_polygons)

C5_Witness ==
    \E k \in 1..Len(classified) :
        /\ 10 * classified[k].island_area = 9 * classified[k].polygon.area200
        /\ classified[k].greenery_area = 0
        /\ classified[k].is_land
        /\ pc = "done"

\* the lines of all_segments that are coastlines
CoastlineLines == 1..Len(clipped_coastline_segments)

\* the land cover of the layer covers more of the polygon than the threshold
LandcoverAbove(c) ==
    GreeneryDen * c.landcover_area > GreeneryNum * c.polygon.area200

\* C6: when the manager passes the processed land-cover layer on, a face
\* without coastline contact whose land-cover overlap is above the threshold
\* is labelled land, and one whose overlap is not keeps the default (water).
C6_LandcoverVeto ==
    \A k \in 1..Len(classified) :
        (caller = "manager"
         /\ classified[k].polygon.lines \cap CoastlineLines = {}
         /\ ~IslandCovered(classified[k])) =>
            (classified[k].is_land <=> LandcoverAbove(classified[k]))

\* C7: the water output holds exactly the classified polygons whose label is
\* water, and once the classifier is done every valid polygon is classified.
C7_OnlyWaterKept ==
    /\ \A k \in 1..Len(classified) :
           classified[k].polygon \in Range(water_polygons)
               <=> ~classified[k].is_land
    /\ Range(water_polygons) \subseteq
           {classified[k].polygon : k \in 1..Len(classified)}
    /\ pc = "done" =>
           {classified[k].polygon : k \in 1..Len(classified)}
               = Range(valid_polygons)

C7_Witness ==
    /\ pc = "done"
    /\ \E a, b \in 1..Len(classified) :
           classified[a].is_land /\ ~classified[b].is_land
    /\ Len(water_polygons) = 1

\* The pipeline up to the classifier as a function of the coastlines and of
\* which of them fail to clip (fetch_enhanced_coastline_water, lines 490-509,
\* and line 653 of the classifier).
ClippedOf(coast, raised) ==
    Concat([k \in 1..Len(coast) |->
               split_coastline_at_boundary_intersections(coast[k], raised[k])])

AllSegmentsOf(coast, raised) ==
    LET clipped == CHOOSE c \in {ClippedOf(coast, raised)} : TRUE
        touch == Concat([k \in 1..Len(clipped) |-> TouchPointsOf(clipped[k])])
    IN  [k \in 1..Len(clipped) |-> RingLine(clipped[k])]
        \o create_frame_with_coastline_vertices(touch)

FacesOfRequest(coast, raised) == polygonize(AllSegmentsOf(coast, raised))

\* a list of faces as a set: each face its vertices and its area
FaceSet(faces) ==
    {[vertices |-> Range(faces[k].exterior), area200 |-> faces[k].area200] :
        k \in 1..Len(faces)}

\* the sequence s in the order f
Reordered(s, f) == [k \in 1..Len(s) |-> s[f[k]]]

\* is_land of a classified polygon when the islands come in the order g and
\* the land-cover polygons in the order h, each with the overlap that was
\* measured for it
LabelReordered(c, g, h) ==
    LET land_area == Reordered(c.land_cover, h)
        greenery == GreeneryPolygons(
                        GreeneryDataOf(caller, Reordered(landcover, h)))
    IN  IsLand(Sum(Reordered(c.island_cover, g)),
               Sum([k \in 1..Len(greenery) |-> land_area[greenery[k].src]]),
               c.polygon.area200)

\* the orders of n things that exchange two neighbours; every order is a
\* chain of these
Swaps(n) ==
    {[k \in 1..n |-> IF k = j THEN j + 1 ELSE IF k = j + 1 THEN j ELSE k] :
        j \in 1..(n - 1)}

\* C13: the pipeline is a function of its inputs, and the order of the
\* input collections does not matter: the coastlines with any two
\* neighbours exchanged (and so, every request being checked, in any order)
\* give the same set of faces, and the face classified last (every face, as
\* this holds after each turn of the loop) gets the same label, and so is
\* or is not in the water output, for every order of the island polygons
\* and of the land-cover polygons.
C13_OrderOfInputsIrrelevant ==
    /\ pc = "polygonize" =>
           \A own \in {FaceSet(polygonize(all_segments))} :
               \A f \in Swaps(Len(coastline_segments)) :
                   FaceSet(FacesOfRequest(Reordered(coastline_segments, f),
                                          Reordered(clip_raised, f))) = own
    /\ classified # <<>> =>
           \A g \in Orders(island_count), h \in Orders(Len(landcover)) :
               /\ LabelReordered(Last(classified), g, h)
                      = Last(classified).is_land
               /\ Last(classified).polygon \in Range(water_polygons)
                      <=> ~LabelReordered(Last(classified), g, h)

\* two coastlines that both touch the frame were split into faces, and a
\* face was labelled water with two islands measured differently
C13_Witness ==
    /\ pc = "done"
    /\ Len(coastline_segments) = 2
    /\ Len(valid_polygons) >= 2
    /\ \E k \in 1..Len(classified) :
           /\ Len(classified[k].island_cover) = 2
           /\ classified[k].island_cover[1] # classified[k].island_cover[2]
           /\ ~classified[k].is_land

\* the corners of the frame, in ring coordinates
Corners ==
    {ToRing(<<x, y>>) : x \in {XMin, XMax}, y \in {YMin, YMax}}

\* the edge joins two corners that are neighbours on the frame
CornerToNext(edge) ==
    /\ Len(edge) = 2
    /\ edge[1] \in Corners /\ edge[2] \in Corners
    /\ (edge[1][1] = edge[2][1]) # (edge[1][2] = edge[2][2])

\* C14: when no coastline touches the frame, the frame is emitted as exactly
\* 4 edges, each from one corner to the next, that form the closed rectangle:
\* each edge ends where the next begins, the last where the first begins,
\* and every corner is the start of one edge.
C14_FrameFourEdges ==
    (FrameSplit /\ coastline_boundary_points = <<>>) =>
        /\ Len(frame_boundary_with_vertices) = 4
        /\ \A k \in 1..4 : CornerToNext(frame_boundary_with_vertices[k])
        /\ ClosedChain(frame_boundary_with_vertices)
        /\ {frame_boundary_with_vertices[k][1] : k \in 1..4} = Corners

\* the frame was split for a request whose only coastline lies inside the
\* frame and touches it nowhere
C14_Witness ==
    /\ FrameSplit
    /\ clipped_coastline_segments = <<LoopCoast>>
    /\ coastline_boundary_points = <<>>
    /\ Len(all_segments) = 5

\* the request of the island scenario: the closed coastline alone
LoopRequest ==
    /\ coastline_segments = <<LoopCoast>>
    /\ island_count = 0
    /\ landcover = <<>>

\* C15: for a closed coastline inside the frame, with no land cover and no
\* islands, the finished pipeline has produced exactly 2 faces, the inside
\* of the loop and the frame with the loop as its hole, and exactly one of
\* the two is labelled water.
C15_LoopTwoFacesOneWater ==
    (pc = "done" /\ LoopRequest) =>
        /\ Len(classified) = 2
        /\ \E a, b \in 1..Len(classified) :
               /\ a # b
               /\ Range(classified[a].polygon.exterior)
                      = Range(RingLine(LoopCoast))
               /\ classified[a].polygon.holes = {}
               /\ Range(classified[b].polygon.exterior) = Corners
               /\ Cardinality(classified[b].polygon.holes) = 1
               /\ classified[a].is_land # classified[b].is_land

\* the polygon is valid and larger than the noise threshold
ValidAndLarge(poly) ==
    poly.is_valid /\ poly.area200 > MinFaceArea * AreaUnit

\* C20: an invalid polygon of polygonize is never propagated: every face
\* that reaches classification, every face that was classified and every
\* polygon the classifier returns is valid and has an area above the noise
\* threshold.
C20_OnlyValidFaces ==
    /\ \A k \in 1..Len(valid_polygons) : ValidAndLarge(valid_polygons[k])
    /\ \A k \in 1..Len(classified) : ValidAndLarge(classified[k].polygon)
    /\ \A k \in 1..Len(water_polygons) : ValidAndLarge(water_polygons[k])

\* polygonize returned an invalid polygon, the classifier has run and
\* returned water polygons
C20_Witness ==
    /\ pc = "done"
    /\ \E k \in 1..Len(polygons) :
           ~polygons[k].is_valid
           /\ polygons[k].area200 > MinFaceArea * AreaUnit
    /\ water_polygons # <<>>

\* C24: the override steps of the classifier only move a label towards
\* land: of the values is_land takes for a face (at line 688, after the island
\* check, after the land-cover check) none is land with a later one water,
\* and the land-cover check is made only for a face that the island check
\* has not labelled land.
C24_OnlyTowardsLand ==
    \A k \in 1..Len(classified) :
        LET c == classified[k]
        IN  /\ \A i, j \in 1..Len(c.label_steps) :
                   (i < j /\ c.label_steps[i]) => c.label_steps[j]
            /\ c.is_land = Last(c.label_steps)
            /\ c.greenery_checked => ~c.label_steps[2]

\* one face was labelled land by the island check while land cover lay on
\* it, and another face was moved from water to land by the land-cover check
C24_Witness ==
    /\ pc = "done"
    /\ \E k \in 1..Len(classified) :
           /\ classified[k].label_steps[2]
           /\ ~classified[k].greenery_checked
           /\ classified[k].landcover_area > 0
           /\ classified[k].polygon \notin Range(water_polygons)
    /\ \E k \in 1..Len(classified) :
           /\ ~classified[k].label_steps[2]
           /\ classified[k].greenery_checked
           /\ classified[k].is_land

\* the distance of two positions along the closed perimeter
PerimeterDistance(a, b) == Min(Abs(a - b), total_length - Abs(a - b))

\* the split points the frame splitter retains for the recorded touch points
RetainedPositions ==
    UniquePositions(VertexPositions(coastline_boundary_points))

\* C22: the frame splitter deduplicates the touch points within tolerance:
\* any two retained split points are more than 10 m apart along the
\* perimeter, also across its start/end point, and every recorded touch
\* point lies within 10 m of a retained split point.
C22_DeduplicatedWithinTolerance ==
    pc # "clip" =>
        \A up \in {RetainedPositions} :
            /\ \A i, j \in 1..Len(up) :
                   i # j => PerimeterDistance(up[i], up[j]) > MinSeparation
            /\ \A k \in 1..Len(coastline_boundary_points) :
                   \E i \in 1..Len(up) :
                       PerimeterDistance(
                           Project(coastline_boundary_points[k]), up[i])
                           <= MinSeparation

\* the two ring points lie on one side of the rectangle
OnOneSide(p, q) ==
    \/ p[1] = q[1] /\ p[1] \in {Scale * XMin, Scale * XMax}
    \/ p[2] = q[2] /\ p[2] \in {Scale * YMin, Scale * YMax}

\* C23: every frame sub-edge the frame splitter emits lies on the boundary
\* of the rectangle: any two vertices of it that follow one another lie on
\* one side, so a sub-edge that spans a corner has that corner as a vertex
\* and does not cut across it.
C23_SubEdgesOnBoundary ==
    \A k \in 1..Len(frame_boundary_with_vertices) :
        LET edge == frame_boundary_with_vertices[k]
        IN  \A j \in 1..(Len(edge) - 1) : OnOneSide(edge[j], edge[j + 1])

\* C8: every vertex the frame clipper passes on lies in the frame, and so does
\* every vertex of a water polygon; a line outside the frame yields nothing,
\* also when clipping raised.
C8_ClippedInFrame ==
    /\ \A k \in 1..Len(clipped_coastline_segments) :
           \A j \in 1..Len(clipped_coastline_segments[k]) :
               InBox(clipped_coastline_segments[k][j])
    /\ \A k \in 1..Len(water_polygons) :
           \A j \in 1..Len(water_polygons[k].exterior) :
               /\ water_polygons[k].exterior[j][1] >= Scale * XMin
               /\ water_polygons[k].exterior[j][1] <= Scale * XMax
               /\ water_polygons[k].exterior[j][2] >= Scale * YMin
               /\ water_polygons[k].exterior[j][2] <= Scale * YMax

\* ------------------------------------------------------------ ring stitcher
\* Way coordinates in units of half the tolerance of _points_are_close
\* (1e-6): two points are close when they differ by less than 2 units in
\* each coordinate.
SnapTol == 2

\* _points_are_close
points_are_close(p1, p2) ==
    Abs(p1[1] - p2[1]) < SnapTol /\ Abs(p1[2] - p2[2]) < SnapTol

\* the index of the first remaining segment that connects to ring_end with
\* either of its ends, 0 when the for loop runs to its else (lines 91-106)
FirstConnecting(ring_end, remaining) ==
    LET hits == {i \in 1..Len(remaining) :
                    \/ points_are_close(ring_end, remaining[i][1])
                    \/ points_are_close(ring_end, Last(remaining[i]))}
    IN  IF hits = {} THEN 0
        ELSE CHOOSE i \in hits : \A j \in hits : i <= j

\* the segment as it is appended: as given when its start connects,
\* reversed otherwise (lines 96-104)
Connected(ring_end, segment) ==
    IF points_are_close(ring_end, segment[1]) THEN segment
    ELSE Reverse(segment)

\* remaining_segments.pop(i)
RemoveAt(s, i) == SubSeq(s, 1, i - 1) \o SubSeq(s, i + 1, Len(s))

\* ring_coords of the ring segments (lines 121-127)
StitchedCoords(ring_segments) ==
    ring_segments[1]
    \o Concat([k \in 1..(Len(ring_segments) - 1) |-> Tail(ring_segments[k + 1])])

\* the ring left as stitched
EnsureClosedSkipped(ring_coords) == ring_coords

\* "Ensure the ring is closed" (lines 131-132)
EnsureClosed(ring_coords) ==
    IF points_are_close(ring_coords[1], Last(ring_coords)) THEN ring_coords
    ELSE Append(ring_coords, ring_coords[1])

\* is the ring converted at all (line 119)
RingConverted(complete, ring_segments) == complete \/ Len(ring_segments) = 1

\* rings after the conversion of current_ring (lines 119-135)
ConvertedRings(done, complete, ring_segments) ==
    IF RingConverted(complete, ring_segments)
       /\ Len(StitchedCoords(ring_segments)) >= 3
    THEN Append(done, EnsureClosed(StitchedCoords(ring_segments)))
    ELSE done

\* The inner while loop as a function (lines 87-116): the ring grows by the
\* first connecting segment until none connects or none remains.
RECURSIVE InnerLoop(_, _)
InnerLoop(ring, remaining) ==
    IF remaining = <<>>
    THEN [current_ring |-> ring, remaining |-> remaining,
          ring_complete |-> FALSE]
    ELSE LET ring_end == Last(Last(ring))
             i == FirstConnecting(ring_end, remaining)
         IN  IF i # 0
             THEN InnerLoop(Append(ring, Connected(ring_end, remaining[i])),
                            RemoveAt(remaining, i))
             ELSE [current_ring |-> ring, remaining |-> remaining,
                   ring_complete |->
                       points_are_close(ring[1][1], ring_end)]

\* The outer while loop as a function (lines 82-135)
RECURSIVE OuterLoop(_, _)
OuterLoop(remaining, done) ==
    IF remaining = <<>> THEN done
    ELSE LET r == CHOOSE x \in {InnerLoop(<<Head(remaining)>>,
                                          Tail(remaining))} : TRUE
         IN  OuterLoop(r.remaining,
                       ConvertedRings(done, r.ring_complete, r.current_ring))

\* _stitch_ways_into_rings as a function of its argument
stitch_ways_into_rings(segments) == OuterLoop(segments, <<>>)

\* The loop of the relation the ways come from, its closing vertex not
\* repeated, and ways that belong to no loop.
Loop == << <<0, 0>>, <<40, 0>>, <<40, 40>>, <<0, 40>> >>

StrayPool ==
    << << <<100, 0>>, <<120, 0>>, <<120, 20>> >>,
       << <<120, 20>>, <<100, 20>> >>,
       << <<100, 0>>, <<100, 20>> >>,
       << <<200, 0>>, <<220, 0>>, <<200, 20>>, <<200, 0>> >>,
       << <<300, 0>>, <<320, 0>> >> >>

MaxFragments == 3

\* the part of the loop from vertex a round to vertex b (the whole loop, back
\* to a, when b = a)
Arc(a, b) ==
    [i \in 1..(((b - a - 1) % Len(Loop)) + 2) |->
        Loop[((a + i - 2) % Len(Loop)) + 1]]

\* the way with its last node moved by d units: the same node as the next
\* way's first, within the tolerance
Snapped(way, d) ==
    [i \in 1..Len(way) |->
        IF i = Len(way) THEN <<way[i][1] + d, way[i][2]>> ELSE way[i]]

\* the loop split at the vertices `cuts' (k of them) into k ways, the ways
\* in the order `order', way j reversed when flip[j]
SplitLoop(cuts, order, flip, d) ==
    LET at == Sort(SetToSeq(cuts))
        k == Len(at)
        piece(j) == Snapped(Arc(at[j], at[(j % k) + 1]), d)
    IN  [j \in 1..k |->
            IF flip[j] THEN Reverse(piece(order[j])) ELSE piece(order[j])]

LoopSplits ==
    {SplitLoop(q[1], q[2], q[3], q[4]) :
        q \in UNION {
            {cuts \in SUBSET (1..Len(Loop)) : Cardinality(cuts) = k}
            \X Orders(k) \X [1..k -> BOOLEAN] \X {0, SnapTol - 1} :
            k \in 1..Min(MaxFragments, Len(Loop))}}

StrayInputs ==
    {[k \in 1..Len(pick) |-> StrayPool[pick[k]]] :
        pick \in DistinctPicks(Len(StrayPool), MaxFragments)}

\* the loop in two ways and a closed way next to it, in any order
TwoRingInputs ==
    {[k \in 1..3 |-> <<Arc(1, 3), Arc(3, 1), StrayPool[4]>>[f[k]]] :
        f \in Orders(3)}

StitchInit ==
    /\ way_segments \in LoopSplits \cup StrayInputs \cup TwoRingInputs
    /\ remaining_segments = way_segments
    /\ current_ring = <<>>
    /\ ring_complete = FALSE
    /\ rings = <<>>
    /\ remaining_ids = [k \in 1..Len(way_segments) |-> k]
    /\ current_ids = <<>>
    /\ ring_ids = <<>>
    /\ spc = "outer"

\* _stitch_ways_into_rings, lines 82-85: a new ring from the first remaining
\* segment
StartRing ==
    /\ spc = "outer"
    /\ remaining_segments # <<>>
    /\ current_ring' = <<Head(remaining_segments)>>
    /\ remaining_segments' = Tail(remaining_segments)
    /\ ring_complete' = FALSE
    /\ current_ids' = <<Head(remaining_ids)>>
    /\ remaining_ids' = Tail(remaining_ids)
    /\ spc' = "inner"
    /\ UNCHANGED <<way_segments, rings, ring_ids>>
    /\ UNCHANGED <<pipeVars, debugVars, holeVars, normVars, collectVars,
                   managerVars, archVars, queryVars, generateVars>>

\* one turn of the inner loop in which a segment connects (lines 87-106)
AppendSegment ==
    /\ spc = "inner"
    /\ ~ring_complete /\ remaining_segments # <<>>
    /\ LET ring_end == Last(Last(current_ring))
           i == FirstConnecting(ring_end, remaining_segments)
       IN  /\ i # 0
           /\ current_ring' =
                  Append(current_ring, Connected(ring_end, remaining_segments[i]))
           /\ remaining_segments' = RemoveAt(remaining_segments, i)
           /\ current_ids' = Append(current_ids, remaining_ids[i])
           /\ remaining_ids' = RemoveAt(remaining_ids, i)
    /\ UNCHANGED <<way_segments, ring_complete, rings, ring_ids, spc>>
    /\ UNCHANGED <<pipeVars, debugVars, holeVars, normVars, collectVars,
                   managerVars, archVars, queryVars, generateVars>>

\* no segment connects and the ring is not closed, but the loop is not left
CloseOrSpin ==
    /\ spc = "inner"
    /\ ~ring_complete /\ remaining_segments # <<>>
    /\ LET ring_start == current_ring[1][1]
           ring_end == Last(Last(current_ring))
       IN  /\ FirstConnecting(ring_end, remaining_segments) = 0
           /\ ring_complete' = points_are_close(ring_start, ring_end)
    /\ UNCHANGED <<way_segments, remaining_segments, current_ring, rings,
                   remaining_ids, current_ids, ring_ids, spc>>
    /\ UNCHANGED <<pipeVars, debugVars, holeVars, normVars, collectVars,
                   managerVars, archVars, queryVars, generateVars>>

\* one turn of the inner loop in which no segment connects (lines 107-116):
\* the ring is complete when its end is close to its start, else the loop is
\* left
CloseOrAbandon ==
    /\ spc = "inner"
    /\ ~ring_complete /\ remaining_segments # <<>>
    /\ LET ring_start == current_ring[1][1]
           ring_end == Last(Last(current_ring))
       IN  /\ FirstConnecting(ring_end, remaining_segments) = 0
           /\ IF points_are_close(ring_start, ring_end)
              THEN ring_complete' = TRUE /\ spc' = "inner"
              ELSE ring_complete' = FALSE /\ spc' = "convert"
    /\ UNCHANGED <<way_segments, remaining_segments, current_ring, rings,
                   remaining_ids, current_ids, ring_ids>>
    /\ UNCHANGED <<pipeVars, debugVars, holeVars, normVars, collectVars,
                   managerVars, archVars, queryVars, generateVars>>

\* the inner loop has ended; lines 118-135
ConvertRing ==
    /\ \/ spc = "convert"
       \/ spc = "inner" /\ (ring_complete \/ remaining_segments = <<>>)
    /\ rings' = ConvertedRings(rings, ring_complete, current_ring)
    /\ ring_ids' = IF Len(rings') > Len(rings)
                   THEN Append(ring_ids, current_ids)
                   ELSE ring_ids
    /\ spc' = "outer"
    /\ UNCHANGED <<way_segments, remaining_segments, current_ring,
                   ring_complete, remaining_ids, current_ids>>
    /\ UNCHANGED <<pipeVars, debugVars, holeVars, normVars, collectVars,
                   managerVars, archVars, queryVars, generateVars>>

\* lines 76-77 and 137
ReturnRings ==
    /\ spc = "outer"
    /\ remaining_segments = <<>>
    /\ spc' = "done"
    /\ UNCHANGED <<way_segments, remaining_segments, current_ring,
                   ring_complete, rings, remaining_ids, current_ids,
                   ring_ids>>
    /\ UNCHANGED <<pipeVars, debugVars, holeVars, normVars, collectVars,
                   managerVars, archVars, queryVars, generateVars>>

InitStitch == StitchInit /\ PipeIdle /\ DebugIdle /\ HoleIdle /\ NormIdle /\ CollectIdle
    /\ ManagerIdle /\ ArchIdle /\ QueryIdle /\ GenerateIdle
NextStitch == StartRing \/ AppendSegment \/ CloseOrAbandon \/ ConvertRing
                  \/ ReturnRings
SpecStitch == InitStitch /\ [][NextStitch]_vars

\* the stitcher is a sequential loop: it takes its next step whenever it has
\* one
SpecStitchFair == SpecStitch /\ WF_vars(NextStitch)

\* -------------------------------------------- claims on the ring stitcher
\* every point of A is close to a point of B and the other way round
SameVertices(A, B) ==
    /\ \A a \in A : \E b \in B : points_are_close(a, b)
    /\ \A b \in B : \E a \in A : points_are_close(a, b)

\* C2: when the ways are one closed loop split at k >= 1 points, in any
\* order, the stitcher returns exactly one ring, and the vertices of that
\* ring are the vertices of the loop.
C2_LoopReconstructed ==
    (spc = "done" /\ way_segments \in LoopSplits) =>
        /\ Len(rings) = 1
        /\ SameVertices(Range(rings[1]), Range(Loop))

\* The inner loop has ended on a chain whose end is close neither to its
\* start nor to an end of any remaining segment.
UnclosableChain ==
    /\ \/ spc = "convert"
       \/ spc = "inner" /\ remaining_segments = <<>>
    /\ ~ring_complete
    /\ ~points_are_close(current_ring[1][1], Last(Last(current_ring)))
    /\ FirstConnecting(Last(Last(current_ring)), remaining_segments) = 0

\* C11 as stated: a chain that cannot be closed and that no remaining
\* fragment connects to is emitted as an open polyline, its vertices
\* unchanged: it is neither dropped nor closed by an added vertex.
C11_OpenChainEmitted ==
    [][UnclosableChain =>
          rings' = Append(rings, StitchedCoords(current_ring))]_vars

\* C11 amended: such a chain is never emitted open. A chain of two or more
\* fragments is abandoned and no ring is emitted for it; a lone fragment is
\* emitted with its first vertex appended when it has at least 3 vertices,
\* and dropped when it has fewer. Every ring emitted is closed.
C11_OpenChainClosedOrDropped ==
    /\ [][UnclosableChain =>
             rings' = IF Len(current_ring) = 1 /\ Len(current_ring[1]) >= 3
                      THEN Append(rings, Append(current_ring[1],
                                                current_ring[1][1]))
                      ELSE rings]_vars
    /\ [](\A k \in 1..Len(rings) :
              points_are_close(rings[k][1], Last(rings[k])))

\* an open way of 2 nodes was dropped and an open way of 3 nodes was emitted
\* with its first node appended
C11_Witness ==
    /\ spc = "done"
    /\ way_segments = <<StrayPool[5], StrayPool[1]>>
    /\ rings = <<Append(StrayPool[1], StrayPool[1][1])>>

\* the two lists hold the same rings, a ring being its set of vertices
SameRingSet(A, B) ==
    {Range(A[k]) : k \in 1..Len(A)} = {Range(B[k]) : k \in 1..Len(B)}

\* the run of the stitcher and the function agree on the rings returned
StitchAgrees ==
    spc = "done" => rings = stitch_ways_into_rings(way_segments)

\* C12: the set of rings returned does not depend on the order of the
\* fragments in the input: the stitcher returns the same set of rings for
\* every reordering of the ways it was given.
C12_OrderIndependent ==
    spc = "done" =>
        \A f \in Orders(Len(way_segments)) :
            SameRingSet(
                stitch_ways_into_rings(
                    [k \in 1..Len(way_segments) |-> way_segments[f[k]]]),
                rings)

\* no fragment of the argument is in two of the rings returned
NoSharedFragment ==
    \A a, b \in 1..Len(ring_ids) :
        a # b => Range(ring_ids[a]) \cap Range(ring_ids[b]) = {}

\* C27: the ring stitcher terminates for every finite list of fragments (it
\* comes to its return), and no fragment of the input appears in more than
\* one of the rings it returns.
C27_TerminatesWithoutSharing ==
    /\ <>(spc = "done")
    /\ [](Len(ring_ids) = Len(rings) /\ NoSharedFragment)

\* the stitcher has returned two rings, one of them made of two fragments,
\* for three fragments
C27_Witness ==
    /\ spc = "done"
    /\ Len(way_segments) = 3
    /\ Len(rings) = 2
    /\ \E a \in 1..Len(ring_ids) : Len(ring_ids[a]) = 2

\* ---------------------------------------------------------- vote classifier
\* shared_boundary.length < 1.0, intersection(gp).area > 20000
MinSharedLength == 1
GreeneryVetoArea == 20000

\* What is measured for one polygon and one coastline: does the polygon's
\* boundary intersect the coastline, what polygon.boundary.intersection(
\* coastline) is and how long, the sign of the cross product of the coastline
\* direction and the vector to the polygon's representative point, and
\* whether one of the shapely calls of is_on_right_side raises.
Contact(intersects, shared, length, cross, raises) ==
    [intersects |-> intersects, shared |-> shared, length |-> length,
     cross |-> cross, raises |-> raises]

ContactPool ==
    << Contact(FALSE, "empty", 0, 0, FALSE),
       Contact(TRUE, "Point", 0, 0, FALSE),
       Contact(TRUE, "MultiLineString", 60, -1, FALSE),
       Contact(TRUE, "LineString", 0, -1, FALSE),
       Contact(TRUE, "LineString", 50, -1, FALSE),
       Contact(TRUE, "LineString", 50, 1, FALSE),
       Contact(TRUE, "LineString", 50, 0, FALSE),
       Contact(TRUE, "LineString", 50, -1, TRUE) >>

\* is_on_right_side: None, or cross_product < 0, which is a numpy.bool_
is_on_right_side(contact) ==
    IF contact.raises THEN "None"
    ELSE IF \/ contact.shared = "empty"
            \/ contact.shared # "LineString"
            \/ contact.length < MinSharedLength
         THEN "None"
    ELSE IF contact.cross < 0 THEN "numpy.True_" ELSE "numpy.False_"

\* `result is True', `result is False' (lines 109, 111): identity with the
\* objects True and False, which a numpy.bool_ is not
IsTrue(result) == result = "True"
IsFalse(result) == result = "False"

\* is_on_right_side is called when the polygon's boundary intersects the
\* coastline (lines 107-108)
ResultOf(contact) ==
    IF contact.intersects THEN is_on_right_side(contact) ELSE "not called"

\* votes after one turn of the loop of lines 106-112
CountVote(tally, result) ==
    [water |-> tally.water + (IF IsTrue(result) THEN 1 ELSE 0),
     land |-> tally.land + (IF IsFalse(result) THEN 1 ELSE 0)]

\* initial_type without the frame test: equal votes give water
InitialTypeNoFrameTest(tally, touches_frame) ==
    IF tally.land > tally.water THEN "land" ELSE "water"

\* initial_type (lines 104, 114-121)
InitialType(tally, touches_frame) ==
    IF tally.land > tally.water THEN "land"
    ELSE IF tally.water > tally.land THEN "water"
    ELSE IF touches_frame THEN "water" ELSE "land"

\* final_type (lines 125-134): overlaps are the areas of the intersections
\* with the greenery polygons the polygon intersects
FinalType(initial_type, overlaps, veto_raises) ==
    IF initial_type # "land" /\ ~veto_raises
       /\ \E k \in 1..Len(overlaps) : overlaps[k] > GreeneryVetoArea
    THEN "land"
    ELSE initial_type

OverlapPool == {<<>>, <<GreeneryVetoArea>>, <<0, GreeneryVetoArea + 1>>}

MaxDebugCoast == 2
MaxDebugFaces == 3

\* polygonize of the clipped coastlines and the frame boundary has run
DebugInit ==
    /\ coastline_lines \in 0..MaxDebugCoast
    /\ result_polygons \in 1..MaxDebugFaces
    /\ debug_i = 1
    /\ coast_k = 1
    /\ votes = NoVotes
    /\ answered = FALSE
    /\ classified_polygons = <<>>
    /\ dpc = "classify"

\* main, one turn of the loop of lines 106-112
VoteCoastline ==
    /\ dpc = "classify"
    /\ debug_i <= result_polygons
    /\ coast_k <= coastline_lines
    /\ \E contact \in Range(ContactPool) :
           /\ votes' = CountVote(votes, ResultOf(contact))
           /\ answered' =
                  (answered \/ ResultOf(contact) \in {"numpy.True_", "numpy.False_"})
    /\ coast_k' = coast_k + 1
    /\ UNCHANGED <<coastline_lines, result_polygons, debug_i,
                   classified_polygons, dpc>>
    /\ UNCHANGED <<pipeVars, stitchVars, holeVars, normVars, collectVars,
                   managerVars, archVars, queryVars, generateVars>>

\* main, lines 114-136, and lines 101-105 for the next polygon
LabelPolygon ==
    /\ dpc = "classify"
    /\ debug_i <= result_polygons
    /\ coast_k > coastline_lines
    /\ \E touches_frame \in BOOLEAN,
          overlaps \in OverlapPool,
          veto_raises \in BOOLEAN :
           LET initial_type == InitialType(votes, touches_frame)
           IN  classified_polygons' =
                   Append(classified_polygons,
                          [votes |-> votes,
                           answered |-> answered,
                           touches_frame |-> touches_frame,
                           initial_type |-> initial_type,
                           type |-> FinalType(initial_type, overlaps,
                                              veto_raises)])
    /\ debug_i' = debug_i + 1
    /\ coast_k' = 1
    /\ votes' = NoVotes
    /\ answered' = FALSE
    /\ UNCHANGED <<coastline_lines, result_polygons, dpc>>
    /\ UNCHANGED <<pipeVars, stitchVars, holeVars, normVars, collectVars,
                   managerVars, archVars, queryVars, generateVars>>

\* main, lines 139-150
SaveResults ==
    /\ dpc = "classify"
    /\ debug_i > result_polygons
    /\ dpc' = "done"
    /\ UNCHANGED <<coastline_lines, result_polygons, debug_i, coast_k, votes,
                   answered, classified_polygons>>
    /\ UNCHANGED <<pipeVars, stitchVars, holeVars, normVars, collectVars,
                   managerVars, archVars, queryVars, generateVars>>

InitDebug == DebugInit /\ PipeIdle /\ StitchIdle /\ HoleIdle /\ NormIdle /\ CollectIdle
    /\ ManagerIdle /\ ArchIdle /\ QueryIdle /\ GenerateIdle
NextDebug == VoteCoastline \/ LabelPolygon \/ SaveResults
SpecDebug == InitDebug /\ [][NextDebug]_vars

min_hole_area == 1000
\* Polygons are unions of unit cells of half that area.
CellArea == min_hole_area \div 2
Area(cells) == CellArea * Cardinality(cells)

\* the outer polygons a relation can bring, and its inner polygons with the
\* tag of the member way they come from
OuterPool == << {1, 2, 3, 4, 5, 6}, {5, 6, 7, 8} >>

InnerPool ==
    << [cells |-> {1}, tag |-> ""],
       [cells |-> {2, 3}, tag |-> ""],
       [cells |-> {3, 4, 5}, tag |-> "bridge_support"],
       [cells |-> {1, 2, 3, 4, 5, 6, 7, 8}, tag |-> ""] >>

MaxOuter == 2
MaxInner == 2

\* unary_union of polygons
UnionCells(polys) == UNION {polys[k] : k \in 1..Len(polys)}

\* the area test with > in place of >=
IsSignificantStrict(which, inner_poly) ==
    IF which = "working" THEN Area(inner_poly.cells) > min_hole_area
    ELSE TRUE

\* is the inner polygon kept as a hole: water.py, line 253; get_water.py
\* keeps every inner polygon (lines 238-243)
IsSignificant(which, inner_poly) ==
    IF which = "working" THEN Area(inner_poly.cells) >= min_hole_area
    ELSE TRUE

\* significant_inner_polys (water.py, lines 249-257)
SignificantInner(which, inner) ==
    SelectSeq(inner, LAMBDA inner_poly : IsSignificant(which, inner_poly))

\* unified_inner (lines 260-263)
UnifiedInner(significant) ==
    [cells |-> UNION {significant[k].cells : k \in 1..Len(significant)},
     valid |-> TRUE]

\* is result_geom taken as the final geometry (line 267)
DifferenceAccepted(result_geom) == Area(result_geom.cells) > 0

\* final_geometry after lines 259-275: `outcome' is what
\* unified_outer.difference(unified_inner) did ("ok", "invalid": a result
\* that is not valid, "raises")
WithHoles(outer, significant, outcome) ==
    LET unified_inner == UnifiedInner(significant)
        result_geom == [cells |-> outer.cells \ unified_inner.cells,
                        valid |-> outcome # "invalid"]
    IN  IF significant = <<>> \/ ~unified_inner.valid \/ outcome = "raises"
        THEN outer
        ELSE IF DifferenceAccepted(result_geom) THEN result_geom
        ELSE outer

\* a member way: its role, the cells its ring encloses (for an open way, the
\* cells the polygon made of it would cover), its tag, and is_closed
MemberWay(role, cells, tag, closed) ==
    [role |-> role, cells |-> cells, tag |-> tag, closed |-> closed]

\* the member ways with the role
WithRole(ways, role) == SelectSeq(ways, LAMBDA way : way.role = role)

\* outer_polys after the loop of lines 121-180: the polygons of the closed
\* outer ways
ClosedOuter(ways) ==
    LET closed == SelectSeq(WithRole(ways, "outer"), LAMBDA way : way.closed)
    IN  [k \in 1..Len(closed) |-> closed[k].cells]

\* inner_polys after the loop
ClosedInner(ways) ==
    LET closed == SelectSeq(WithRole(ways, "inner"), LAMBDA way : way.closed)
    IN  [k \in 1..Len(closed) |->
            [cells |-> closed[k].cells, tag |-> closed[k].tag]]

\* the cells of the polygon made of the segments
SegmentCells(segments) ==
    UNION {segments[k].cells : k \in 1..Len(segments)}

\* the segments connected whatever polygons there are
ShouldConnectAlways(which, role, segments, polys) == segments # <<>>

\* are the segments of the role handed to connect_coastlines_to_polygon:
\* water.py lines 183 and 194; get_water.py lines 178 and 188 (the inner
\* segments always)
ShouldConnect(which, role, segments, polys) ==
    /\ segments # <<>>
    /\ polys = <<>> \/ (which = "simple" /\ role = "inner")

\* are the segments of the role handed to polygonize (lines 204 and 217)
ShouldPolygonize(segments, polys) == segments # <<>> /\ polys = <<>>

MaxOpen == 2

HoleInit ==
    /\ assembler \in {"working", "simple"}
    /\ \E outer \in DistinctPicks(Len(OuterPool), MaxOuter),
          inner \in DistinctPicks(Len(InnerPool), MaxInner) :
           \E open \in {S \in SUBSET (1..(Len(outer) + Len(inner))) :
                            Cardinality(S) <= MaxOpen} :
               members =
                   [k \in 1..(Len(outer) + Len(inner)) |->
                       IF k <= Len(outer)
                       THEN MemberWay("outer", OuterPool[outer[k]], "",
                                      k \notin open)
                       ELSE MemberWay("inner",
                                      InnerPool[inner[k - Len(outer)]].cells,
                                      InnerPool[inner[k - Len(outer)]].tag,
                                      k \notin open)]
    /\ all_outer_segments = <<>>
    /\ all_inner_segments = <<>>
    /\ connected = NotConnected
    /\ outer_polys = <<>>
    /\ inner_polys = <<>>
    /\ unified_outer = NoGeometry
    /\ significant_inner_polys = <<>>
    /\ difference_outcome = "none"
    /\ final_geometry = NoGeometry
    /\ returned = "none"
    /\ hpc = "members"

\* the loop over the members, lines 121-180
CollectMembers ==
    /\ hpc = "members"
    /\ all_outer_segments' = WithRole(members, "outer")
    /\ all_inner_segments' = WithRole(members, "inner")
    /\ outer_polys' = ClosedOuter(members)
    /\ inner_polys' = ClosedInner(members)
    /\ hpc' = "connect"
    /\ UNCHANGED <<assembler, members, connected, unified_outer,
                   significant_inner_polys, difference_outcome,
                   final_geometry, returned>>
    /\ UNCHANGED <<pipeVars, stitchVars, debugVars, normVars, collectVars,
                   managerVars, archVars, queryVars, generateVars>>

\* lines 182-201: connect_coastlines_to_polygon returns a polygon or None
ConnectSegments ==
    /\ hpc = "connect"
    /\ \E outer_made, inner_made \in BOOLEAN :
           /\ outer_made => ShouldConnect(assembler, "outer",
                                          all_outer_segments, outer_polys)
           /\ inner_made => ShouldConnect(assembler, "inner",
                                          all_inner_segments, inner_polys)
           /\ outer_polys' =
                  IF outer_made
                  THEN Append(outer_polys, SegmentCells(all_outer_segments))
                  ELSE outer_polys
           /\ inner_polys' =
                  IF inner_made
                  THEN Append(inner_polys,
                              [cells |-> SegmentCells(all_inner_segments),
                               tag |-> ""])
                  ELSE inner_polys
           /\ connected' = [outer |-> outer_made, inner |-> inner_made]
    /\ hpc' = "polygonize"
    /\ UNCHANGED <<assembler, members, all_outer_segments,
                   all_inner_segments, unified_outer,
                   significant_inner_polys, difference_outcome,
                   final_geometry, returned>>
    /\ UNCHANGED <<pipeVars, stitchVars, debugVars, normVars, collectVars,
                   managerVars, archVars, queryVars, generateVars>>

\* lines 203-226: polygonize finds a polygon in the segments or none
PolygonizeSegments ==
    /\ hpc = "polygonize"
    /\ \E outer_found, inner_found \in BOOLEAN :
           /\ outer_found => ShouldPolygonize(all_outer_segments, outer_polys)
           /\ inner_found => ShouldPolygonize(all_inner_segments, inner_polys)
           /\ outer_polys' =
                  IF outer_found
                  THEN Append(outer_polys, SegmentCells(all_outer_segments))
                  ELSE outer_polys
           /\ inner_polys' =
                  IF inner_found
                  THEN Append(inner_polys,
                              [cells |-> SegmentCells(all_inner_segments),
                               tag |-> ""])
                  ELSE inner_polys
    /\ hpc' = "assemble"
    /\ UNCHANGED <<assembler, memberVars, unified_outer,
                   significant_inner_polys, difference_outcome,
                   final_geometry, returned>>
    /\ UNCHANGED <<pipeVars, stitchVars, debugVars, normVars, collectVars,
                   managerVars, archVars, queryVars, generateVars>>

\* lines 228-230: no outer polygon, the relation yields nothing
NoOuter ==
    /\ hpc = "assemble"
    /\ outer_polys = <<>>
    /\ returned' = "None"
    /\ hpc' = "done"
    /\ UNCHANGED <<assembler, outer_polys, inner_polys, unified_outer,
                   significant_inner_polys, difference_outcome,
                   final_geometry>>
    /\ UNCHANGED memberVars
    /\ UNCHANGED <<pipeVars, stitchVars, debugVars, normVars, collectVars,
                   managerVars, archVars, queryVars, generateVars>>

\* lines 235-245 (and 291-293 when unary_union or make_valid raises)
UnifyOuter ==
    /\ hpc = "assemble"
    /\ outer_polys # <<>>
    /\ \E raises \in BOOLEAN :
           /\ raises => Len(outer_polys) > 1
           /\ IF raises
              THEN /\ returned' = "None"
                   /\ hpc' = "done"
                   /\ UNCHANGED <<unified_outer, final_geometry>>
              ELSE /\ unified_outer' = [cells |-> UnionCells(outer_polys),
                                        valid |-> TRUE]
                   /\ final_geometry' = unified_outer'
                   /\ hpc' = "holes"
                   /\ UNCHANGED returned
    /\ UNCHANGED <<assembler, outer_polys, inner_polys,
                   significant_inner_polys, difference_outcome>>
    /\ UNCHANGED memberVars
    /\ UNCHANGED <<pipeVars, stitchVars, debugVars, normVars, collectVars,
                   managerVars, archVars, queryVars, generateVars>>

\* lines 246-257
FilterHoles ==
    /\ hpc = "holes"
    /\ significant_inner_polys' = SignificantInner(assembler, inner_polys)
    /\ hpc' = "subtract"
    /\ UNCHANGED <<assembler, outer_polys, inner_polys, unified_outer,
                   difference_outcome, final_geometry, returned>>
    /\ UNCHANGED memberVars
    /\ UNCHANGED <<pipeVars, stitchVars, debugVars, normVars, collectVars,
                   managerVars, archVars, queryVars, generateVars>>

\* lines 259-275
SubtractHoles ==
    /\ hpc = "subtract"
    /\ \E outcome \in {"ok", "invalid", "raises"} :
           /\ final_geometry' =
                  WithHoles(unified_outer, significant_inner_polys, outcome)
           /\ difference_outcome' =
                  IF significant_inner_polys = <<>> THEN "none"
                  ELSE IF outcome = "raises" THEN "raises"
                  ELSE IF unified_outer.cells
                              \subseteq UnifiedInner(significant_inner_polys).cells
                       THEN "empty"
                  ELSE outcome
    /\ hpc' = "return"
    /\ UNCHANGED <<assembler, outer_polys, inner_polys, unified_outer,
                   significant_inner_polys, returned>>
    /\ UNCHANGED memberVars
    /\ UNCHANGED <<pipeVars, stitchVars, debugVars, normVars, collectVars,
                   managerVars, archVars, queryVars, generateVars>>

\* lines 277-295
ReturnGeometry ==
    /\ hpc = "return"
    /\ returned' = IF Area(final_geometry.cells) > 0 THEN "geometry"
                   ELSE "None"
    /\ hpc' = "done"
    /\ UNCHANGED <<assembler, outer_polys, inner_polys, unified_outer,
                   significant_inner_polys, difference_outcome,
                   final_geometry>>
    /\ UNCHANGED memberVars
    /\ UNCHANGED <<pipeVars, stitchVars, debugVars, normVars, collectVars,
                   managerVars, archVars, queryVars, generateVars>>

InitHoles == HoleInit /\ PipeIdle /\ StitchIdle /\ DebugIdle /\ NormIdle /\ CollectIdle
    /\ ManagerIdle /\ ArchIdle /\ QueryIdle /\ GenerateIdle
NextHoles == CollectMembers \/ ConnectSegments \/ PolygonizeSegments
                 \/ NoOuter \/ UnifyOuter \/ FilterHoles \/ SubtractHoles
                 \/ ReturnGeometry
SpecHoles == InitHoles /\ [][NextHoles]_vars

\* ------------------------------------------- claims on the hole assembler
\* the assembler has returned a geometry
Assembled == hpc = "done" /\ returned = "geometry"

\* the subtraction was not needed or went through
Subtracted == difference_outcome \in {"none", "ok"}

\* the tags that mark a structural artifact
ArtifactTags == {"bridge_support"}

\* the union of the inner polygons with these indices
HoleCells(kept) == UNION {inner_polys[k].cells : k \in kept}

\* C9 as stated: the hole assembler discards every inner ring that is tagged
\* as a structural artifact or is smaller than the minimum hole area, and
\* subtracts the union of exactly the other inner rings from the outer union.
C9_ArtifactsAndSmallDiscarded ==
    (Assembled /\ Subtracted) =>
        LET kept == {k \in 1..Len(inner_polys) :
                        /\ inner_polys[k].tag \notin ArtifactTags
                        /\ Area(inner_polys[k].cells) >= min_hole_area}
        IN  /\ Range(significant_inner_polys) = {inner_polys[k] : k \in kept}
            /\ final_geometry.cells = unified_outer.cells \ HoleCells(kept)

\* C9 as amended: assemble_multipolygon_working discards an inner polygon
\* exactly when its area is below the minimum hole area, whatever its tag,
\* assemble_multipolygon_simple discards none, and the union of exactly the
\* other inner polygons is subtracted from the outer union.
C9_AreaOnlyFilter ==
    (Assembled /\ Subtracted) =>
        LET kept == {k \in 1..Len(inner_polys) :
                        assembler = "working" =>
                            Area(inner_polys[k].cells) >= min_hole_area}
        IN  /\ Range(significant_inner_polys) = {inner_polys[k] : k \in kept}
            /\ final_geometry.cells = unified_outer.cells \ HoleCells(kept)

\* a small inner polygon was discarded and a large one with an artifact tag
\* was cut out of the outer union
C9_Witness ==
    /\ Assembled /\ difference_outcome = "ok"
    /\ assembler = "working"
    /\ \E a, b \in 1..Len(inner_polys) :
           /\ Area(inner_polys[a].cells) < min_hole_area
           /\ inner_polys[a] \notin Range(significant_inner_polys)
           /\ inner_polys[b].tag \in ArtifactTags
           /\ inner_polys[b] \in Range(significant_inner_polys)
           /\ inner_polys[b].cells \cap final_geometry.cells = {}
           /\ inner_polys[b].cells \cap unified_outer.cells # {}

\* the closed member ways of the role
ClosedWays(role) == SelectSeq(WithRole(members, role), LAMBDA way : way.closed)

\* C25: in assemble_multipolygon_working the open fragments of a role are
\* connected into a polygon only when no member way of the role is a closed
\* polygon of its own; when there is one, the polygons of the role are
\* exactly the closed ways and the outer union is the union of the closed
\* outer ways, so the open fragments contribute nothing.
C25_FragmentsOnlyWithoutClosed ==
    (assembler = "working" /\ hpc \notin {"members", "connect"}) =>
        /\ connected.outer => ClosedWays("outer") = <<>>
        /\ connected.inner => ClosedWays("inner") = <<>>
        /\ ClosedWays("outer") # <<>> =>
               /\ outer_polys = ClosedOuter(members)
               /\ unified_outer # NoGeometry =>
                      unified_outer.cells = SegmentCells(ClosedWays("outer"))
        /\ ClosedWays("inner") # <<>> => inner_polys = ClosedInner(members)

\* a relation with a closed and an open outer way was assembled from the
\* closed way alone, and open inner ways were connected into a hole
C25_Witness ==
    /\ Assembled /\ assembler = "working"
    /\ \E a, b \in 1..Len(all_outer_segments) :
           /\ all_outer_segments[a].closed
           /\ ~all_outer_segments[b].closed
           /\ ~(all_outer_segments[b].cells \subseteq unified_outer.cells)
    /\ connected.inner
    /\ \E k \in 1..Len(all_inner_segments) : ~all_inner_segments[k].closed

\* C10: when the subtraction raises or its result is invalid or empty, the
\* assembler returns the outer union without holes; what it returns is never
\* invalid, and with an outer union it always returns a geometry.
C10_HolesFallBack ==
    /\ Assembled =>
           /\ final_geometry.valid
           /\ difference_outcome \in {"raises", "invalid", "empty"}
                  => final_geometry = unified_outer
    /\ (hpc = "done" /\ unified_outer # NoGeometry) => returned = "geometry"

\* ------------------------------------------------------- output normalizers
\* transformer.transform(lon, lat): the projection to the metric grid of the
\* city, one-to-one; here with a false easting and a different scale on
\* each axis
Transform(node) == <<500 + 7 * node[1], 11 * node[2]>>

\* "Ensure closed polygon" left out
EnsureClosedPolygonSkipped(coordinates) == coordinates

\* "Ensure closed polygon" (water.py lines 419-420 and 532-533)
EnsureClosedPolygon(coordinates) ==
    IF coordinates[1] # Last(coordinates)
    THEN Append(coordinates, coordinates[1])
    ELSE coordinates

\* list(ring.coords) of a shapely LinearRing: the ring with its first
\* coordinate repeated at the end
Coords(ring) == Append(ring, ring[1])

\* polygon_data of a shapely polygon, as a list of no or one record
\* (coastline_water.py lines 428-441, water.py lines 465-473 and 482-499)
PolygonRecord(poly) ==
    LET exterior_coords == Coords(poly.exterior)
        interiors == SetToSeq(poly.holes)
        hole_coords_list ==
            SelectSeq([j \in 1..Len(interiors) |-> Coords(interiors[j])],
                      LAMBDA hole_coords : Len(hole_coords) >= 3)
    IN  IF Len(exterior_coords) >= 3
        THEN <<[exterior |-> exterior_coords, holes |-> hole_coords_list]>>
        ELSE <<>>

\* member.ref of the way members of relation k: the ways marked as members
\* belong to the first relation of the result
RelationRefs(ways, k) ==
    IF k = 1 THEN {i \in 1..Len(ways) : ways[i].member} ELSE {}

\* no way taken for a member
NoMemberWays(ways, types) == {}

\* relation_member_ways (lines 396-402): the ways the multipolygon relations
\* refer to
relation_member_ways(ways, types) ==
    UNION {RelationRefs(ways, k) :
              k \in {r \in 1..Len(types) : types[r] = "multipolygon"}}

\* the records of one way in process_water (lines 409-434)
WaterWayRecords(water_body, is_member) ==
    IF is_member \/ water_body.natural = "coastline" THEN <<>>
    ELSE IF Len(water_body.nodes) >= 3
    THEN LET coordinates == EnsureClosedPolygon(water_body.nodes)
             transformed_coords ==
                 [i \in 1..Len(coordinates) |-> Transform(coordinates[i])]
         IN  IF Len(transformed_coords) >= 4
             THEN <<[exterior |-> transformed_coords, holes |-> <<>>]>>
             ELSE <<>>
    ELSE <<>>

\* the records of one element in _process_water_standard (lines 525-538)
StandardRecords(element) ==
    LET coords == [i \in 1..Len(element.nodes) |->
                      Transform(element.nodes[i])]
    IN  IF Len(coords) >= 3
        THEN <<[exterior |-> EnsureClosedPolygon(coords), holes |-> <<>>]>>
        ELSE <<>>

\* the records of one relation in process_water (lines 448-503): of each
\* part of a MultiPolygon, or of the single Polygon
RelationRecords(type, geometry) ==
    IF type # "multipolygon" \/ geometry.kind = "None" THEN <<>>
    ELSE Concat([k \in 1..Len(geometry.geoms) |->
                    PolygonRecord(geometry.geoms[k])])

\* the records of one water polygon in convert_coastline_water_to_polygons
\* (lines 426-441): only what has an exterior is converted
ConvertedRecords(water_poly) ==
    IF water_poly.kind = "Polygon" THEN PolygonRecord(water_poly.geoms[1])
    ELSE <<>>

\* the ways the water data can hold (lon, lat)
WayPool ==
    << [nodes |-> << <<0, 0>>, <<1, 0>>, <<1, 1>> >>,
        natural |-> "water", member |-> FALSE],
       [nodes |-> << <<0, 0>>, <<1, 0>>, <<1, 1>>, <<0, 1>>, <<0, 0>> >>,
        natural |-> "water", member |-> FALSE],
       [nodes |-> << <<0, 0>>, <<1, 0>> >>,
        natural |-> "water", member |-> FALSE],
       [nodes |-> << <<0, 0>>, <<0, 0>>, <<1, 0>> >>,
        natural |-> "water", member |-> FALSE],
       [nodes |-> << <<0, 0>>, <<1, 0>>, <<0, 0>> >>,
        natural |-> "water", member |-> FALSE],
       [nodes |-> << <<0, 0>>, <<1, 0>>, <<1, 1>>, <<0, 0>> >>,
        natural |-> "coastline", member |-> FALSE],
       [nodes |-> << <<0, 0>>, <<1, 0>>, <<1, 1>>, <<0, 0>> >>,
        natural |-> "water", member |-> TRUE] >>

\* the polygons polygonize makes of the closed coastline: the island, and
\* the frame with the island as its hole
LoopFaces ==
    << [exterior |-> << <<600, 200>>, <<600, 600>>, <<200, 600>>,
                        <<200, 200>> >>,
        holes |-> {}],
       [exterior |-> << <<1000, 0>>, <<1000, 1000>>, <<0, 1000>>,
                        <<0, 0>> >>,
        holes |-> {<< <<200, 600>>, <<600, 600>>, <<600, 200>>,
                      <<200, 200>> >>}] >>

\* unified_outer.difference(unified_inner) (water.py line 266) of the frame
\* as the outer polygon and an inner triangle of 1800 square metres that has
\* one corner on the outer ring: a valid polygon whose interior ring touches
\* its exterior ring in that corner
TouchingHole ==
    [exterior |-> << <<1000, 0>>, <<1000, 1000>>, <<0, 1000>>, <<0, 0>> >>,
     holes |-> {<< <<0, 500>>, <<600, 800>>, <<600, 200>> >>}]

\* the shapely geometries a normalizer can be given
GeomPool ==
    << [kind |-> "None", geoms |-> <<>>],
       [kind |-> "Polygon", geoms |-> <<LoopFaces[1]>>],
       [kind |-> "Polygon", geoms |-> <<LoopFaces[2]>>],
       [kind |-> "MultiPolygon", geoms |-> LoopFaces],
       [kind |-> "Polygon", geoms |-> <<TouchingHole>>] >>

MaxWays == 2
MaxGeoms == 2

NormInit ==
    /\ normalizer \in {"convert", "process_water", "standard"}
    /\ \E pick \in Picks(Len(WayPool), MaxWays) :
           norm_ways = IF normalizer = "convert" THEN <<>>
                       ELSE [k \in 1..Len(pick) |-> WayPool[pick[k]]]
    /\ \E pick \in Picks(Len(GeomPool), MaxGeoms) :
           norm_geoms = IF normalizer = "standard" THEN <<>>
                        ELSE [k \in 1..Len(pick) |-> GeomPool[pick[k]]]
    /\ relation_types \in
           IF normalizer = "process_water"
           THEN {types \in [1..Len(norm_geoms) -> {"multipolygon", "waterway"}] :
                    \A k \in 1..Len(norm_geoms) :
                        types[k] = "waterway" => norm_geoms[k].kind = "None"}
           ELSE {<<>>}
    /\ norm_i = 1
    /\ polygon_features = <<>>
    /\ emitted_from = <<>>
    /\ npc = IF normalizer = "convert" THEN "polygons" ELSE "ways"

\* what the records were made of
Origins(records, kind, i) == [j \in 1..Len(records) |-> <<kind, i>>]

\* convert_coastline_water_to_polygons, one turn of the loop of lines 426-441
ConvertPolygon ==
    /\ normalizer = "convert" /\ npc = "polygons"
    /\ norm_i <= Len(norm_geoms)
    /\ \E records \in {ConvertedRecords(norm_geoms[norm_i])} :
           /\ polygon_features' = polygon_features \o records
           /\ emitted_from' =
                  emitted_from \o Origins(records, "polygon", norm_i)
    /\ norm_i' = norm_i + 1
    /\ UNCHANGED <<normalizer, norm_ways, norm_geoms, relation_types, npc>>
    /\ UNCHANGED <<pipeVars, stitchVars, debugVars, holeVars, collectVars,
                   managerVars, archVars, queryVars, generateVars>>

\* process_water, one turn of the loop of lines 407-443
ProcessWay ==
    /\ normalizer = "process_water" /\ npc = "ways"
    /\ norm_i <= Len(norm_ways)
    /\ \E records \in
              {WaterWayRecords(norm_ways[norm_i],
                               norm_i \in relation_member_ways(
                                              norm_ways, relation_types))} :
           /\ polygon_features' = polygon_features \o records
           /\ emitted_from' = emitted_from \o Origins(records, "way", norm_i)
    /\ norm_i' = norm_i + 1
    /\ UNCHANGED <<normalizer, norm_ways, norm_geoms, relation_types, npc>>
    /\ UNCHANGED <<pipeVars, stitchVars, debugVars, holeVars, collectVars,
                   managerVars, archVars, queryVars, generateVars>>

\* process_water, lines 445-447: from the ways to the relations
StartRelations ==
    /\ normalizer = "process_water" /\ npc = "ways"
    /\ norm_i > Len(norm_ways)
    /\ norm_i' = 1
    /\ npc' = "relations"
    /\ UNCHANGED <<normalizer, norm_ways, norm_geoms, relation_types,
                   polygon_features, emitted_from>>
    /\ UNCHANGED <<pipeVars, stitchVars, debugVars, holeVars, collectVars,
                   managerVars, archVars, queryVars, generateVars>>

\* process_water, one turn of the loop of lines 447-510
ProcessRelation ==
    /\ normalizer = "process_water" /\ npc = "relations"
    /\ norm_i <= Len(norm_geoms)
    /\ \E records \in {RelationRecords(relation_types[norm_i],
                                        norm_geoms[norm_i])} :
           /\ polygon_features' = polygon_features \o records
           /\ emitted_from' =
                  emitted_from \o Origins(records, "relation", norm_i)
    /\ norm_i' = norm_i + 1
    /\ UNCHANGED <<normalizer, norm_ways, norm_geoms, relation_types, npc>>
    /\ UNCHANGED <<pipeVars, stitchVars, debugVars, holeVars, collectVars,
                   managerVars, archVars, queryVars, generateVars>>

\* _process_water_standard, one turn of the loop of lines 524-538
StandardElement ==
    /\ normalizer = "standard" /\ npc = "ways"
    /\ norm_i <= Len(norm_ways)
    /\ \E records \in {StandardRecords(norm_ways[norm_i])} :
           /\ polygon_features' = polygon_features \o records
           /\ emitted_from' = emitted_from \o Origins(records, "way", norm_i)
    /\ norm_i' = norm_i + 1
    /\ UNCHANGED <<normalizer, norm_ways, norm_geoms, relation_types, npc>>
    /\ UNCHANGED <<pipeVars, stitchVars, debugVars, holeVars, collectVars,
                   managerVars, archVars, queryVars, generateVars>>

\* the return of each normalizer
ReturnFeatures ==
    /\ \/ normalizer = "convert" /\ npc = "polygons"
          /\ norm_i > Len(norm_geoms)
       \/ normalizer = "process_water" /\ npc = "relations"
          /\ norm_i > Len(norm_geoms)
       \/ normalizer = "standard" /\ npc = "ways"
          /\ norm_i > Len(norm_ways)
    /\ npc' = "done"
    /\ UNCHANGED <<normalizer, norm_ways, norm_geoms, relation_types,
                   norm_i, polygon_features, emitted_from>>
    /\ UNCHANGED <<pipeVars, stitchVars, debugVars, holeVars, collectVars,
                   managerVars, archVars, queryVars, generateVars>>

InitNorm == NormInit /\ PipeIdle /\ StitchIdle /\ DebugIdle /\ HoleIdle /\ CollectIdle
    /\ ManagerIdle /\ ArchIdle /\ QueryIdle /\ GenerateIdle
NextNorm == ConvertPolygon \/ ProcessWay \/ StartRelations
                \/ ProcessRelation \/ StandardElement \/ ReturnFeatures
SpecNorm == InitNorm /\ [][NextNorm]_vars

\* ------------------------------------------ claims on the output normalizers
\* the ring is explicitly closed: its last coordinate is its first
ExplicitlyClosed(ring) == ring # <<>> /\ ring[1] = Last(ring)

\* C16: every polygon record a normalizer emits has an explicitly closed
\* exterior (first coordinate = last coordinate), and every hole ring of the
\* record is closed as well.
C16_RecordsClosed ==
    \A k \in 1..Len(polygon_features) :
        /\ ExplicitlyClosed(polygon_features[k].exterior)
        /\ \A j \in 1..Len(polygon_features[k].holes) :
               ExplicitlyClosed(polygon_features[k].holes[j])

\* process_water has emitted the record of a way that came open and the
\* record of a polygon with a hole
C16_Witness ==
    /\ npc = "done" /\ normalizer = "process_water"
    /\ norm_ways = <<WayPool[1]>>
    /\ Len(polygon_features) = 2
    /\ Len(polygon_features[1].exterior) = Len(WayPool[1].nodes) + 1
    /\ Len(polygon_features[2].holes) = 1

\* C17: no polygon record is ever emitted whose exterior has fewer than 3
\* distinct vertices.
C17_ThreeDistinctVertices ==
    \A k \in 1..Len(polygon_features) :
        Cardinality(Range(polygon_features[k].exterior)) >= 3

\* C26: process_water never emits as a stand-alone polygon a way that is a
\* member of a multipolygon relation, whether or not the assembly of the
\* relation gave a geometry, so no way is emitted both stand-alone and
\* through its relation.
C26_MemberWaysNotStandAlone ==
    normalizer = "process_water" =>
        \A n \in 1..Len(emitted_from) :
            emitted_from[n][1] = "way" =>
                ~\E k \in 1..Len(relation_types) :
                     /\ relation_types[k] = "multipolygon"
                     /\ emitted_from[n][2] \in RelationRefs(norm_ways, k)

\* process_water has run on a member way of a multipolygon relation whose
\* assembly gave no geometry and on a way of no relation: one record, of
\* the second way
C26_Witness ==
    /\ npc = "done" /\ normalizer = "process_water"
    /\ norm_ways = <<WayPool[7], WayPool[2]>>
    /\ relation_types = <<"multipolygon">>
    /\ norm_geoms[1].kind = "None"
    /\ emitted_from = << <<"way", 2>> >>

\* the point lies on the ring (on one of its edges)
OnRing(p, ring) ==
    \E i \in 1..(Len(ring) - 1) :
        /\ Cross(Minus(ring[i + 1], ring[i]), Minus(p, ring[i])) = 0
        /\ Dot(Minus(p, ring[i]), Minus(p, ring[i + 1])) <= 0

\* the edges a-b and c-d cross in a point inside both
ProperCross(a, b, c, d) ==
    LET side(p, q, r) == Cross(Minus(q, p), Minus(r, p))
        apart(x, y) == (x < 0 /\ y > 0) \/ (x > 0 /\ y < 0)
    IN  /\ apart(side(a, b, c), side(a, b, d))
        /\ apart(side(c, d, a), side(c, d, b))

\* an edge of one closed ring crosses an edge of the other
RingsCross(r1, r2) ==
    \E i \in 1..(Len(r1) - 1), j \in 1..(Len(r2) - 1) :
        ProperCross(r1[i], r1[i + 1], r2[j], r2[j + 1])

\* the closed ring `hole' lies strictly within the closed ring `exterior':
\* every vertex of it is inside and off the exterior, and no edges cross
StrictlyWithin(hole, exterior) ==
    /\ \A k \in 1..Len(hole) :
           ~OnRing(hole[k], exterior) /\ Inside(hole[k], exterior)
    /\ ~RingsCross(hole, exterior)

\* two closed rings overlap: they are the same ring, their edges cross, or
\* a vertex of one is inside the other
Overlap(r1, r2) ==
    \/ Range(r1) = Range(r2)
    \/ RingsCross(r1, r2)
    \/ \E k \in 1..Len(r1) : ~OnRing(r1[k], r2) /\ Inside(r1[k], r2)
    \/ \E k \in 1..Len(r2) : ~OnRing(r2[k], r1) /\ Inside(r2[k], r1)

\* C21: in every polygon record emitted, every hole ring lies strictly
\* within the exterior ring of the record, and no two holes of the record
\* overlap.
C21_HolesStrictlyWithin ==
    \A k \in 1..Len(polygon_features) :
        LET record == polygon_features[k]
        IN  /\ \A j \in 1..Len(record.holes) :
                   StrictlyWithin(record.holes[j], record.exterior)
            /\ \A i, j \in 1..Len(record.holes) :
                   i # j => ~Overlap(record.holes[i], record.holes[j])

\* -------------------------------------------------------- segment collector
\* way_type of a way (line 773): its natural tag, else its waterway tag
WayType(way) == way.natural

\* the segments of one way as a list of none or one (lines 773-785): the
\* nodes are read as (lat, lon) and transformed as (lon, lat)
CollectedSegments(way) ==
    IF WayType(way) = "coastline"
    THEN LET coords == way.nodes
         IN  IF Len(coords) >= 2
             THEN <<[i \in 1..Len(coords) |->
                        Transform(<<coords[i][2], coords[i][1]>>)]>>
             ELSE <<>>
    ELSE <<>>

\* the ways of a boundary result, nodes as (lat, lon); the transformer takes
\* lon -70 to x = 10, lon -60 to x = 80 and lat 5 to y = 55
BoundaryWayPool ==
    << [natural |-> "coastline", nodes |-> << <<5, -70>>, <<5, -60>> >>],
       [natural |-> "coastline", nodes |-> << <<5, -70>>, <<5, -70>> >>],
       [natural |-> "coastline", nodes |-> << <<5, -70>> >>],
       [natural |-> "coastline", nodes |-> <<>>],
       [natural |-> "water", nodes |-> << <<5, -70>>, <<5, -60>> >>],
       [natural |-> "coastline", nodes |-> << <<5, -80>>, <<5, -50>> >>],
       [natural |-> "coastline",
        nodes |-> << <<5, -70>>, <<5, -70>>, <<5, -60>> >>] >>

MaxBoundaryWays == 2

CollectInit ==
    /\ \E pick \in Picks(Len(BoundaryWayPool), MaxBoundaryWays) :
           boundary_ways = [k \in 1..Len(pick) |-> BoundaryWayPool[pick[k]]]
    /\ collect_i = 1
    /\ raw_segments = <<>>
    /\ cpc = "collect"

\* extract_raw_coastline_segments, one turn of the loop of lines 772-785
CollectWay ==
    /\ cpc = "collect"
    /\ collect_i <= Len(boundary_ways)
    /\ raw_segments' =
           raw_segments \o CollectedSegments(boundary_ways[collect_i])
    /\ collect_i' = collect_i + 1
    /\ UNCHANGED <<boundary_ways, cpc>>
    /\ UNCHANGED <<pipeVars, stitchVars, debugVars, holeVars, normVars,
                   managerVars, archVars, queryVars, generateVars>>

\* extract_raw_coastline_segments, lines 787-788
ReturnSegments ==
    /\ cpc = "collect"
    /\ collect_i > Len(boundary_ways)
    /\ cpc' = "done"
    /\ UNCHANGED <<boundary_ways, collect_i, raw_segments>>
    /\ UNCHANGED <<pipeVars, stitchVars, debugVars, holeVars, normVars,
                   managerVars, archVars, queryVars, generateVars>>

InitCollect == CollectInit /\ PipeIdle /\ StitchIdle /\ DebugIdle
                   /\ HoleIdle /\ NormIdle /\ ManagerIdle /\ ArchIdle /\ QueryIdle /\ GenerateIdle
NextCollect == CollectWay \/ ReturnSegments
SpecCollect == InitCollect /\ [][NextCollect]_vars

\* -------------------------------------------- claims on the segment collector
\* the path without the points that repeat the point before them
Deduplicated(path) ==
    SelectSeq([i \in 1..Len(path) |->
                  IF i > 1 /\ path[i] = path[i - 1] THEN <<>> ELSE path[i]],
              LAMBDA point : point # <<>>)

\* the polylines the collected segments put into the segment network, for
\* each way the clipping of each can go
NetworkPolylines ==
    UNION {Range(ClippedOf(raw_segments, raised)) :
              raised \in [1..Len(raw_segments) -> BOOLEAN]}

\* C18: a coastline path that has fewer than 2 points once consecutive
\* identical points are removed is dropped by the segment collector and never
\* becomes a polyline of the segment network: every segment collected, and
\* every polyline of the network made of them, has 2 points or more that
\* differ from their predecessor.
C18_ShortPathsDropped ==
    /\ \A k \in 1..Len(raw_segments) :
           Len(Deduplicated(raw_segments[k])) >= 2
    /\ cpc = "done" =>
           \A line \in NetworkPolylines : Len(Deduplicated(line)) >= 2

\* -------------------------------------------------------- background manager
\* A layer of background_data or of processed: whether the key is in the dict
\* and, when it is, the features under it.
Absent == [present |-> FALSE, items |-> <<>>]
Layer(items) == [present |-> TRUE, items |-> items]

\* process_roads, process_greenery, process_water: each raw element becomes
\* a feature of the layer
ProcessedLayer(kind, raw) ==
    Layer([k \in 1..Len(raw.items) |-> kind])

\* the truth value of an argument of process_all_background (line 57)
Truthy(value) == value \notin {"None", "0"}

ArgsComplete(args) ==
    /\ Truthy(args.map_bounds) /\ Truthy(args.center_lat)
    /\ Truthy(args.center_lon) /\ Truthy(args.radius_km)

\* what the import and fetch_enhanced_coastline_water can raise (a failed
\* query is caught inside and gives the empty dict); all are subclasses of
\* Exception
ExceptionKinds == {"ImportError", "KeyError", "GEOSException"}

\* a handler that catches the import error only
CaughtImportErrorOnly(kind) == kind = "ImportError"

\* "except Exception as e" (line 103)
Caught(kind) == kind \in ExceptionKinds

\* the raw layers a call can bring
RawLayers == {Absent, Layer(<<>>), Layer(<<"element">>)}

MaxCoastFeatures == 1

\* the dicts fetch_enhanced_coastline_water returns (lines 458-462, 523-527)
CoastlineResults ==
    [water_polygons : {[k \in 1..n |-> "coastline water"] :
                          n \in 0..MaxCoastFeatures},
     coastlines : {<<>>, <<"coastline">>},
     coastline_segments : {<<>>, <<"segment">>}]

ManagerInit ==
    /\ background_data \in
           [roads : RawLayers, greenery : RawLayers, water : RawLayers]
    /\ call_args \in [map_bounds : {"None", "bounds"},
                      center_lat : {"None", "0", "52"},
                      center_lon : {"None", "0", "21"},
                      radius_km : {"None", "5"}]
    /\ processed = [roads |-> Absent, greenery |-> Absent, water |-> Absent,
                    coastlines |-> Absent, coastline_debug |-> Absent]
    /\ coastline_data = <<>>
    /\ failure = "none"
    /\ mpc = "roads"

\* lines 41-44
ProcessRoads ==
    /\ mpc = "roads"
    /\ processed' =
           IF background_data.roads.present
           THEN [processed EXCEPT
                    !.roads = ProcessedLayer("road", background_data.roads)]
           ELSE processed
    /\ mpc' = "greenery"
    /\ UNCHANGED <<background_data, call_args, coastline_data, failure>>
    /\ UNCHANGED <<pipeVars, stitchVars, debugVars, holeVars, normVars,
                   collectVars, archVars, queryVars, generateVars>>

\* lines 46-49
ProcessGreenery ==
    /\ mpc = "greenery"
    /\ processed' =
           IF background_data.greenery.present
           THEN [processed EXCEPT
                    !.greenery =
                        ProcessedLayer("green", background_data.greenery)]
           ELSE processed
    /\ mpc' = "water"
    /\ UNCHANGED <<background_data, call_args, coastline_data, failure>>
    /\ UNCHANGED <<pipeVars, stitchVars, debugVars, holeVars, normVars,
                   collectVars, archVars, queryVars, generateVars>>

\* lines 51-57 and 116-121: the water layer, and whether coastline water is
\* generated at all
ProcessWater ==
    /\ mpc = "water"
    /\ IF background_data.water.present
       THEN /\ processed' =
                   [processed EXCEPT
                       !.water = ProcessedLayer("water",
                                                background_data.water)]
            /\ mpc' = IF ArgsComplete(call_args) THEN "generate"
                      ELSE "return"
       ELSE /\ processed' = processed
            /\ mpc' = "return"
    /\ UNCHANGED <<background_data, call_args, coastline_data, failure>>
    /\ UNCHANGED <<pipeVars, stitchVars, debugVars, holeVars, normVars,
                   collectVars, archVars, queryVars, generateVars>>

\* lines 58-72: the import and the call; either raises or returns a dict
GenerateCoastlineWater ==
    /\ mpc = "generate"
    /\ \/ \E kind \in ExceptionKinds :
              /\ failure' = kind
              /\ mpc' = "except"
              /\ UNCHANGED coastline_data
       \/ \E result \in CoastlineResults :
              /\ coastline_data' = result
              /\ mpc' = "store"
              /\ UNCHANGED failure
    /\ UNCHANGED <<background_data, call_args, processed>>
    /\ UNCHANGED <<pipeVars, stitchVars, debugVars, holeVars, normVars,
                   collectVars, archVars, queryVars, generateVars>>

\* lines 74-98: the rest of the try block
StoreCoastlineData ==
    /\ mpc = "store"
    /\ processed' =
           [processed EXCEPT
               !.water = Layer(processed.water.items
                               \o coastline_data.water_polygons),
               !.coastlines =
                   IF coastline_data.coastlines # <<>>
                   THEN Layer(coastline_data.coastlines)
                   ELSE processed.coastlines,
               !.coastline_debug = Layer(coastline_data.coastline_segments)]
    /\ mpc' = "return"
    /\ UNCHANGED <<background_data, call_args, coastline_data, failure>>
    /\ UNCHANGED <<pipeVars, stitchVars, debugVars, holeVars, normVars,
                   collectVars, archVars, queryVars, generateVars>>

\* lines 103-115: the handler, when it catches what was raised; what it does
\* not catch leaves process_all_background
HandleFailure ==
    /\ mpc = "except"
    /\ IF Caught(failure)
       THEN /\ processed' =
                   [processed EXCEPT !.coastline_debug = Layer(<<>>)]
            /\ mpc' = "return"
       ELSE /\ processed' = processed
            /\ mpc' = "aborted"
    /\ UNCHANGED <<background_data, call_args, coastline_data, failure>>
    /\ UNCHANGED <<pipeVars, stitchVars, debugVars, holeVars, normVars,
                   collectVars, archVars, queryVars, generateVars>>

\* line 123
ReturnProcessed ==
    /\ mpc = "return"
    /\ mpc' = "returned"
    /\ UNCHANGED <<background_data, call_args, processed, coastline_data,
                   failure>>
    /\ UNCHANGED <<pipeVars, stitchVars, debugVars, holeVars, normVars,
                   collectVars, archVars, queryVars, generateVars>>

InitManager == ManagerInit /\ PipeIdle /\ StitchIdle /\ DebugIdle
                   /\ HoleIdle /\ NormIdle /\ CollectIdle /\ ArchIdle /\ QueryIdle /\ GenerateIdle
NextManager == ProcessRoads \/ ProcessGreenery \/ ProcessWater
                   \/ GenerateCoastlineWater \/ StoreCoastlineData
                   \/ HandleFailure \/ ReturnProcessed
SpecManager == InitManager /\ [][NextManager]_vars

\* ------------------------------------------ claims on the background manager
\* the layer of the raw data is in processed as its processor returned it
LayerKept(kind, raw, layer) ==
    raw.present => layer = ProcessedLayer(kind, raw)

\* C19: a failure of coastline water generation never aborts background
\* processing: the exception does not leave process_all_background, and when
\* the call has returned after a failure the road, greenery and water layers
\* processed before it are in the result unchanged and a coastline_debug
\* record is stored.
C19_FailureContained ==
    /\ mpc # "aborted"
    /\ (mpc = "returned" /\ failure # "none") =>
           /\ LayerKept("road", background_data.roads, processed.roads)
           /\ LayerKept("green", background_data.greenery,
                        processed.greenery)
           /\ LayerKept("water", background_data.water, processed.water)
           /\ processed.coastline_debug.present

\* the call has returned after the generation raised a geometry error, with
\* all three layers processed
C19_Witness ==
    /\ mpc = "returned"
    /\ failure = "GEOSException"
    /\ processed.roads = Layer(<<"road">>)
    /\ processed.greenery = Layer(<<"green">>)
    /\ processed.water = Layer(<<"water">>)
    /\ processed.coastline_debug = Layer(<<>>)

\* ------------------------------------------------- archipelago connectors
\* create_archipelago_water connects the endpoints of every open coastline
\* to the map frame and polygonizes the network.  A coastline is its first
\* and last coordinate; the frame is the one of the other parts.
MaxArchSegments == 2

\* endpoints inside the frame, on it, beside an edge and beyond a corner
EndpointPool ==
    { <<30, 40>>, <<50, 50>>, <<0, 50>>, <<100, 100>>,
      <<50, 130>>, <<120, 50>>, <<150, 120>>, <<-20, -20>> }

ArchSegmentPool ==
    { s \in EndpointPool \X EndpointPool : s[1] # s[2] }

\* start_to_end_dist > 100 tells an open coastline from a closed loop
ClosedLoopDist == 100

SqDist(a, b) ==
    (a[1] - b[1]) * (a[1] - b[1]) + (a[2] - b[2]) * (a[2] - b[2])

IsOpenCoastline(start_point, end_point) ==
    SqDist(start_point, end_point) > ClosedLoopDist * ClosedLoopDist

\* the order of Python tuples (distance, (x, y))
TupleLess(a, b) ==
    \/ a[1] < b[1]
    \/ a[1] = b[1] /\ a[2][1] < b[2][1]
    \/ a[1] = b[1] /\ a[2][1] = b[2][1] /\ a[2][2] < b[2][2]

\* the list distances: bottom, right, top and left edge
EdgeDistances(point, xmin, xmax, ymin, ymax) ==
    << <<Abs(point[2] - ymin), <<point[1], ymin>> >>,
       <<Abs(point[1] - xmax), <<xmax, point[2]>> >>,
       <<Abs(point[2] - ymax), <<point[1], ymax>> >>,
       <<Abs(point[1] - xmin), <<xmin, point[2]>> >> >>

\* min(distances)
get_nearest_boundary_point(point, xmin, xmax, ymin, ymax) ==
    LET distances == EdgeDistances(point, xmin, xmax, ymin, ymax)
        k == CHOOSE i \in 1..4 :
                 \A j \in 1..4 : ~TupleLess(distances[j], distances[i])
    IN  distances[k][2]

\* the connectors of one endpoint and the record of the call
Connector(point, edge_point) ==
    IF edge_point # point THEN << <<point, edge_point>> >> ELSE <<>>

ArchInit ==
    /\ \E n \in 0..MaxArchSegments :
           arch_segments \in [1..n -> ArchSegmentPool]
    /\ arch_i = 1
    /\ network_lines = arch_segments
    /\ edge_points = <<>>
    /\ apc = "connect"

\* one turn of the loop over coastline_segments (lines 141-161)
ConnectEndpoints ==
    /\ apc = "connect"
    /\ arch_i <= Len(arch_segments)
    /\ LET start_point == arch_segments[arch_i][1]
           end_point == arch_segments[arch_i][2]
           start_edge_point ==
               get_nearest_boundary_point(start_point, XMin, XMax, YMin, YMax)
           end_edge_point ==
               get_nearest_boundary_point(end_point, XMin, XMax, YMin, YMax)
       IN  IF IsOpenCoastline(start_point, end_point)
           THEN /\ network_lines' =
                       network_lines
                           \o Connector(start_point, start_edge_point)
                           \o Connector(end_point, end_edge_point)
                /\ edge_points' =
                       edge_points
                           \o << [point |-> start_point,
                                  nearest |-> start_edge_point],
                                 [point |-> end_point,
                                  nearest |-> end_edge_point] >>
           ELSE UNCHANGED <<network_lines, edge_points>>
    /\ arch_i' = arch_i + 1
    /\ UNCHANGED <<arch_segments, apc>>
    /\ UNCHANGED <<pipeVars, stitchVars, debugVars, holeVars, normVars,
                   collectVars, managerVars, queryVars, generateVars>>

\* the four boundary edges join the network (lines 163-172)
AddBoundaryEdges ==
    /\ apc = "connect"
    /\ arch_i > Len(arch_segments)
    /\ network_lines' =
           network_lines
               \o << << <<XMin, YMin>>, <<XMax, YMin>> >>,
                     << <<XMax, YMin>>, <<XMax, YMax>> >>,
                     << <<XMax, YMax>>, <<XMin, YMax>> >>,
                     << <<XMin, YMax>>, <<XMin, YMin>> >> >>
    /\ apc' = "network"
    /\ UNCHANGED <<arch_segments, arch_i, edge_points>>
    /\ UNCHANGED <<pipeVars, stitchVars, debugVars, holeVars, normVars,
                   collectVars, managerVars, queryVars, generateVars>>

InitArch == ArchInit /\ PipeIdle /\ StitchIdle /\ DebugIdle /\ HoleIdle
                /\ NormIdle /\ CollectIdle /\ ManagerIdle /\ QueryIdle
                /\ GenerateIdle
NextArch == ConnectEndpoints \/ AddBoundaryEdges
SpecArch == InitArch /\ [][NextArch]_vars

\* ------------------------------------------------- claims on the connectors
\* the points of the frame with whole-metre coordinates
FrameBoundary ==
    { <<x, y>> \in (XMin..XMax) \X (YMin..YMax) :
          x \in {XMin, XMax} \/ y \in {YMin, YMax} }

OnFrame(q) ==
    /\ q[1] >= XMin /\ q[1] <= XMax /\ q[2] >= YMin /\ q[2] <= YMax
    /\ (q[1] \in {XMin, XMax} \/ q[2] \in {YMin, YMax})

\* C28: for every input point, inside or outside the frame,
\* get_nearest_boundary_point returns a point that lies on the rectangle's
\* boundary and is at minimal distance from the input among all boundary
\* points.
C28_NearestOnBoundary ==
    \A k \in 1..Len(edge_points) :
        /\ OnFrame(edge_points[k].nearest)
        /\ \A b \in FrameBoundary :
               SqDist(edge_points[k].point, edge_points[k].nearest)
                   <= SqDist(edge_points[k].point, b)

\* ------------------------------------------------------------ OSMClient
\* OSMClient.query posts the Overpass query until a request ends the call.
\* time.sleep returns, so the delays between the requests are no state.
MAX_RETRIES == 5

\* how a request can end: a status code, a 200 whose body is no JSON, or
\* requests.post raising a RequestException
RequestResults ==
    {"200", "200-invalid-json", "400", "429", "504", "500",
     "RequestException"}

\* the dispatch on response.status_code with every other status retried
StatusOutcomeRetryUnexpected(status) ==
    IF status = "200" THEN "return"
    ELSE IF status = "400" THEN "raise"
    ELSE "retry"

\* the dispatch on response.status_code (lines 36-48)
StatusOutcome(status) ==
    IF status = "200" THEN "return"
    ELSE IF status = "400" THEN "raise"
    ELSE IF status \in {"429", "504"} THEN "retry"
    ELSE "raise"

\* response.json() of a body that is no JSON raises: a JSONDecodeError that
\* is a RequestException where requests defines one, else a ValueError that
\* leaves the call
InvalidJsonOutcomes == {"retry", "ValueError"}

QueryInit ==
    /\ retries = 0
    /\ responses = <<>>
    /\ query_outcome = "running"

\* one turn of the while loop (lines 21-54)
SendRequest ==
    /\ query_outcome = "running"
    /\ retries < MAX_RETRIES
    /\ \E result \in RequestResults :
           /\ responses' = Append(responses, result)
           /\ \E outcome \in
                  IF result = "RequestException" THEN {"retry"}
                  ELSE IF result = "200-invalid-json"
                       THEN InvalidJsonOutcomes
                       ELSE {StatusOutcome(result)} :
                  /\ retries' = IF outcome = "retry" THEN retries + 1
                                ELSE retries
                  /\ query_outcome' =
                         CASE outcome = "return" -> "json"
                           [] outcome = "raise" -> "RuntimeError"
                           [] outcome = "ValueError" -> "ValueError"
                           [] OTHER -> "running"
    /\ UNCHANGED <<pipeVars, stitchVars, debugVars, holeVars, normVars,
                   collectVars, managerVars, archVars, generateVars>>

\* the loop is left with the retries used up (line 56)
RaiseAfterRetries ==
    /\ query_outcome = "running"
    /\ retries >= MAX_RETRIES
    /\ query_outcome' = "RuntimeError"
    /\ UNCHANGED <<retries, responses>>
    /\ UNCHANGED <<pipeVars, stitchVars, debugVars, holeVars, normVars,
                   collectVars, managerVars, archVars, generateVars>>

InitQuery == QueryInit /\ PipeIdle /\ StitchIdle /\ DebugIdle /\ HoleIdle
                 /\ NormIdle /\ CollectIdle /\ ManagerIdle /\ ArchIdle
                 /\ GenerateIdle
NextQuery == SendRequest \/ RaiseAfterRetries
SpecQuery == InitQuery /\ [][NextQuery]_vars
\* the interpreter runs the loop on
SpecQueryFair == SpecQuery /\ WF_vars(NextQuery)

\* ------------------------------------------------- claims on OSMClient
\* a request that ended so is followed by another one
RetriedResults == {"429", "504", "RequestException", "200-invalid-json"}

\* C29: OSMClient.query always terminates: it returns only the JSON of a 200
\* response, raises RuntimeError immediately and without retry on a 400 or
\* any other unexpected status, and after max_retries attempts that ended in
\* 429, 504 or a network error it raises RuntimeError, having sent at most
\* max_retries requests.
C29_QueryTerminates ==
    /\ <>(query_outcome # "running")
    /\ [](/\ Len(responses) <= MAX_RETRIES
          /\ query_outcome = "json" =>
                 responses # <<>> /\ Last(responses) = "200"
          /\ \A k \in 1..Len(responses) :
                 responses[k] \in {"400", "500"} =>
                     k = Len(responses) /\ query_outcome = "RuntimeError"
          /\ (query_outcome = "RuntimeError" /\ responses # <<>>
                  /\ Last(responses) \in RetriedResults) =>
                 Len(responses) = MAX_RETRIES
          /\ (query_outcome \notin {"running", "RuntimeError"}
                  /\ Len(responses) = MAX_RETRIES) =>
                 Last(responses) \in {"200", "200-invalid-json"})

\* the call gave up after MAX_RETRIES requests that ended in 429, 504 and a
\* network error
C29_Witness ==
    /\ query_outcome = "RuntimeError"
    /\ Len(responses) = MAX_RETRIES
    /\ Range(responses) = {"429", "504", "RequestException"}

\* -------------------------------------------------------------- run_generate
\* run_generate loads the cached data of each city and generates its map.
MaxCities == 2

\* the first keys of config.cities.CITIES
CityPool == <<"warszawa", "gdansk", "krakow", "berlin">>
CITIES == {CityPool[k] : k \in 1..MaxCities}

\* args.city: "all", a key of CITIES or another word
CityArgs == {"all"} \cup CITIES \cup {"atlantis"}

CitiesToProcess(city) ==
    IF city = "all" THEN [k \in 1..MaxCities |-> CityPool[k]]
    ELSE <<city>>

\* the layer files a cache directory can hold
LayerFiles == {"roads.gpkg", "venues_bars.gpkg"}

\* os.makedirs(city_dir, exist_ok=True): the directory exists afterwards, or
\* the call raises where it cannot be created
MakedirsResults(dirs, city_key) ==
    IF city_key \in DOMAIN dirs THEN {"exists"}
    ELSE {"created", "OSError"}

\* get_city_cache_dir: the directories after the call
get_city_cache_dir(dirs, city_key) ==
    IF city_key \in DOMAIN dirs THEN dirs
    ELSE [c \in DOMAIN dirs \cup {city_key} |->
              IF c = city_key THEN {} ELSE dirs[c]]

\* the value None, in the shape of raw_data
None == [none |-> TRUE, background |-> {}, venues |-> {}]

\* load_data_from_cache after get_city_cache_dir has returned
load_data_from_cache(dirs, city_key) ==
    IF city_key \notin DOMAIN dirs THEN None
    ELSE [none |-> FALSE,
          background |->
              IF "roads.gpkg" \in dirs[city_key] THEN {"roads"} ELSE {},
          venues |->
              IF "venues_bars.gpkg" \in dirs[city_key] THEN {"bars"}
              ELSE {}]

\* "not raw_data": None is false; the dict has its two keys and is true
\* whatever they hold
IsFalsy(raw_data) == raw_data.none

GenerateInit ==
    /\ \E city \in CityArgs : cities_to_process = CitiesToProcess(city)
    /\ \E present \in SUBSET CITIES :
           cache_dirs \in [present -> SUBSET LayerFiles]
    /\ city_i = 1
    /\ loaded = <<>>
    /\ generated = <<>>
    /\ gpc = "loop"

\* one turn of the loop over cities_to_process (lines 70-86)
ProcessCity ==
    /\ gpc = "loop"
    /\ city_i <= Len(cities_to_process)
    /\ LET city_key == cities_to_process[city_i]
       IN  IF city_key \notin CITIES
           THEN /\ city_i' = city_i + 1
                /\ UNCHANGED <<cache_dirs, loaded, generated, gpc>>
           ELSE \E made \in MakedirsResults(cache_dirs, city_key) :
                    IF made = "OSError"
                    THEN /\ gpc' = "raised"
                         /\ UNCHANGED <<cache_dirs, city_i, loaded,
                                        generated>>
                    ELSE \E dirs \in {get_city_cache_dir(cache_dirs,
                                                         city_key)} :
                         \E raw_data \in {load_data_from_cache(dirs,
                                                               city_key)} :
                             /\ cache_dirs' = dirs
                             /\ loaded' =
                                    Append(loaded,
                                           [city |-> city_key,
                                            had_dir |-> made = "exists",
                                            raw_data |-> raw_data])
                             /\ generated' =
                                    IF IsFalsy(raw_data) THEN generated
                                    ELSE Append(generated, city_key)
                             /\ city_i' = city_i + 1
                             /\ UNCHANGED gpc
    /\ UNCHANGED cities_to_process
    /\ UNCHANGED <<pipeVars, stitchVars, debugVars, holeVars, normVars,
                   collectVars, managerVars, archVars, queryVars>>

\* the loop is over and run_generate returns
FinishGenerate ==
    /\ gpc = "loop"
    /\ city_i > Len(cities_to_process)
    /\ gpc' = "returned"
    /\ UNCHANGED <<cities_to_process, cache_dirs, city_i, loaded,
                   generated>>
    /\ UNCHANGED <<pipeVars, stitchVars, debugVars, holeVars, normVars,
                   collectVars, managerVars, archVars, queryVars>>

InitGenerate == GenerateInit /\ PipeIdle /\ StitchIdle /\ DebugIdle
                    /\ HoleIdle /\ NormIdle /\ CollectIdle /\ ManagerIdle
                    /\ ArchIdle /\ QueryIdle
NextGenerate == ProcessCity \/ FinishGenerate
SpecGenerate == InitGenerate /\ [][NextGenerate]_vars

\* ------------------------------------------------- claims on run_generate
\* C30: load_data_from_cache returns None when no cache directory exists for
\* the city, and run_generate then skips that city without generating a map.
C30_MissingCacheSkipped ==
    \A k \in 1..Len(loaded) :
        ~loaded[k].had_dir =>
            /\ loaded[k].raw_data = None
            /\ loaded[k].city \notin Range(generated)

====
